---- MODULE Spec2Model ----
(***************************************************************************)
(* Kyros agent runtime: the lead state machine, the lead store, the        *)
(* calendar and SMS collaborators and the SmsAppointmentWorkflow            *)
(* orchestrator, as a state machine.                                       *)
(*                                                                         *)
(* Lead objects live in a heap because the code aliases them:               *)
(* LeadStorage.getById / getByPhone / getReadyForContact hand out the       *)
(* stored object itself, LeadStateMachine mutates the object it was given   *)
(* in place, and LeadStorage.update / addContactAttempt replace the stored  *)
(* object by a shallow copy ({...lead, ...updates}).  A lead object is a    *)
(* function from property names to values; a property the object does not   *)
(* own is simply not in its DOMAIN, exactly what the object spread sees.    *)
(* The stateHistory array is created once per lead by createLead and only   *)
(* ever pushed to; every copy of a lead shares it, so it is one sequence    *)
(* per lead id (hist).                                                     *)
(*                                                                         *)
(* Each orchestrator call is a handler whose steps are the stretches of     *)
(* code between two awaits on a collaborator that really suspends           *)
(* (provider.send, classifyResponse, generateResponse, the calendar         *)
(* provider's getAvailableSlots / bookSlot / cancelSlot).                   *)
(***************************************************************************)
EXTENDS Integers, Sequences, FiniteSets, TLC

----------------------------------------------------------------------------
(* Bounds of the model *)

MaxInFlight == 2
MaxCalls == 3
MaxCallsSeq == 7
MaxCallsStop == 2
MaxCallsConfirm == 6
NumSlotsConfirm == 3
NumSlots == 1
MaxTime == 1
MaxHistory == 3
MaxHistoryStop == 2
MaxCallsTick == 4
MaxAttemptsTick == 2
MaxCallsLang == 2
MaxWords == 2
MaxCreated == 1
MaxCallsStart == 4

----------------------------------------------------------------------------
(* leadStateMachine.ts *)

LeadStates ==
  { "new", "consent_pending", "consent_verified", "contact_scheduled",
    "initial_contact_sent", "awaiting_response", "response_received",
    "interested", "appointment_proposed", "appointment_confirmed",
    "appointment_completed", "not_interested", "opted_out", "failed",
    "escalated" }

T(f, t, g) == [from |-> f, to |-> t, trigger |-> g]

STATE_TRANSITIONS ==
  << T("new", "consent_pending", "request_consent"),
     T("new", "consent_verified", "consent_already_verified"),
     T("consent_pending", "consent_verified", "consent_received"),
     T("consent_pending", "opted_out", "consent_declined"),
     T("consent_pending", "failed", "consent_timeout"),
     T("consent_verified", "contact_scheduled", "schedule_contact"),
     T("contact_scheduled", "initial_contact_sent", "send_initial_sms"),
     T("initial_contact_sent", "awaiting_response", "await_response"),
     T("awaiting_response", "response_received", "receive_response"),
     T("awaiting_response", "contact_scheduled", "schedule_retry"),
     T("awaiting_response", "failed", "max_attempts_reached"),
     T("response_received", "interested", "classify_interested"),
     T("response_received", "not_interested", "classify_not_interested"),
     T("response_received", "opted_out", "classify_stop"),
     T("response_received", "awaiting_response", "classify_question"),
     T("interested", "appointment_proposed", "propose_appointment"),
     T("appointment_proposed", "awaiting_response", "await_confirmation"),
     T("appointment_proposed", "appointment_confirmed", "confirm_appointment"),
     T("appointment_proposed", "interested", "reschedule_requested"),
     T("appointment_confirmed", "appointment_completed", "complete_appointment"),
     T("appointment_confirmed", "interested", "appointment_cancelled"),
     T("initial_contact_sent", "opted_out", "opt_out_received"),
     T("awaiting_response", "opted_out", "opt_out_received"),
     T("response_received", "opted_out", "opt_out_received"),
     T("interested", "opted_out", "opt_out_received"),
     T("appointment_proposed", "opted_out", "opt_out_received"),
     T("appointment_confirmed", "opted_out", "opt_out_received"),
     T("failed", "escalated", "escalate"),
     T("interested", "escalated", "escalate"),
     T("not_interested", "escalated", "escalate") >>

Triggers == { STATE_TRANSITIONS[i].trigger : i \in DOMAIN STATE_TRANSITIONS }

TERMINAL_STATES == { "appointment_completed", "opted_out", "escalated" }

CONTACT_BLOCKED_STATES ==
  { "opted_out", "escalated", "failed", "not_interested", "appointment_completed" }

\* STATE_TRANSITIONS.some(t => t.from === state && t.trigger === trigger)
InTable(state, trigger) ==
  \E i \in DOMAIN STATE_TRANSITIONS :
     STATE_TRANSITIONS[i].from = state /\ STATE_TRANSITIONS[i].trigger = trigger

canTransition(state, trigger) ==
  IF state \in TERMINAL_STATES THEN FALSE ELSE InTable(state, trigger)

\* STATE_TRANSITIONS.find(...)?.to ?? null : the first matching row
getTargetState(state, trigger) ==
  IF InTable(state, trigger)
  THEN LET i == CHOOSE j \in DOMAIN STATE_TRANSITIONS :
                  /\ STATE_TRANSITIONS[j].from = state
                  /\ STATE_TRANSITIONS[j].trigger = trigger
                  /\ \A k \in 1..(j-1) :
                        ~(STATE_TRANSITIONS[k].from = state
                          /\ STATE_TRANSITIONS[k].trigger = trigger)
       IN STATE_TRANSITIONS[i].to
  ELSE "null"

\* a canContact that blocks no state
canContactAlways(state) == TRUE

canContact(state) == state \notin CONTACT_BLOCKED_STATES

StateChange(f, t, g, forced) ==
  [fromState |-> f, toState |-> t, trigger |-> g, forced |-> forced]

----------------------------------------------------------------------------
(* The world a synchronous stretch of code works on:                       *)
(*   heap  : sequence of lead objects (index = object reference)            *)
(*   store : LeadStorage.leads, lead id -> object reference                 *)
(*   hist  : the stateHistory array of each lead id                         *)

\* a transition that applies whatever getTargetState returns
transitionUnguarded(W, o, trigger) ==
  [W EXCEPT !.heap[o].state = getTargetState(W.heap[o].state, trigger),
            !.hist[W.heap[o].id] =
               Append(@, StateChange(W.heap[o].state,
                                     getTargetState(W.heap[o].state, trigger),
                                     trigger, FALSE))]

\* a transition that starts the history afresh with its own entry
transitionResettingHistory(W, o, trigger) ==
  LET l == W.heap[o].id
      s == W.heap[o].state
      t == getTargetState(s, trigger)
  IN IF ~canTransition(s, trigger) \/ t = "null"
     THEN W
     ELSE [W EXCEPT !.heap[o].state = t,
                    !.hist[l] = << StateChange(s, t, trigger, FALSE) >>]

\* LeadStateMachine.transition on the object o; a rejected trigger (null)
\* leaves the world as it is
transitionOk(W, o, trigger) == canTransition(W.heap[o].state, trigger)

transition(W, o, trigger) ==
  LET l == W.heap[o].id
      s == W.heap[o].state
      t == getTargetState(s, trigger)
  IN IF ~canTransition(s, trigger) \/ t = "null"
     THEN W
     ELSE [W EXCEPT !.heap[o].state = t,
                    !.hist[l] = Append(@, StateChange(s, t, trigger, FALSE))]

\* a forceTransition that consults the transition table
forceTransitionByTable(W, o, newState, trigger) == transition(W, o, trigger)

\* LeadStateMachine.forceTransition: no validation, trigger "forced:<trigger>"
forceTransition(W, o, newState, trigger) ==
  LET l == W.heap[o].id
      s == W.heap[o].state
  IN [W EXCEPT !.heap[o].state = newState,
               !.hist[l] = Append(@, StateChange(s, newState, trigger, TRUE))]

\* {...a, ...b}
Spread(a, b) ==
  [k \in (DOMAIN a) \cup (DOMAIN b) |-> IF k \in DOMAIN b THEN b[k] ELSE a[k]]

\* LeadStorage.update(id, updates): the stored object is replaced by a copy
update(W, id, updates) ==
  LET n == Len(W.heap) + 1
  IN [W EXCEPT !.heap = Append(@, Spread(W.heap[W.store[id]], updates)),
               !.store[id] = n]

\* updateLead(lead.id, stateMachine.getLead()): the caller's own object is the
\* update
updateLead(W, id, o) == update(W, id, W.heap[o])

\* LeadStorage.addContactAttempt(leadId, attempt)
addContactAttempt(W, id, attempt) ==
  LET n == Len(W.heap) + 1
      old == W.heap[W.store[id]]
  IN [W EXCEPT !.heap = Append(@, Spread(old,
                   [contactAttempts |-> Append(old.contactAttempts, attempt)])),
               !.store[id] = n]

----------------------------------------------------------------------------
(* LanguageService.  A message is the sequence of its characters.  With no  *)
(* API key the service answers from its rules; with a key, callOpenAI       *)
(* throws and the catch falls back to the same rules.                       *)

UpperCase == << "A", "B", "C", "D", "E", "F", "G", "H", "I", "J", "K", "L", "M", "N", "O", "P", "Q", "R", "S", "T", "U", "V", "W", "X", "Y", "Z" >>
LowerCase == << "a", "b", "c", "d", "e", "f", "g", "h", "i", "j", "k", "l", "m", "n", "o", "p", "q", "r", "s", "t", "u", "v", "w", "x", "y", "z" >>

\* String.prototype.toLowerCase, on the letters the messages use
toLowerCase(m) ==
  [i \in DOMAIN m |->
     IF \E k \in DOMAIN UpperCase : UpperCase[k] = m[i]
     THEN LowerCase[CHOOSE k \in DOMAIN UpperCase : UpperCase[k] = m[i]]
     ELSE m[i]]

\* String.prototype.trim
RECURSIVE trim(_)
trim(m) ==
  IF m = << >> THEN m
  ELSE IF Head(m) = " " THEN trim(Tail(m))
  ELSE IF m[Len(m)] = " " THEN trim(SubSeq(m, 1, Len(m) - 1))
  ELSE m

\* String.prototype.includes / startsWith
includes(m, phrase) ==
  \E i \in 0..(Len(m) - Len(phrase)) : SubSeq(m, i + 1, i + Len(phrase)) = phrase

startsWith(m, phrase) ==
  Len(m) >= Len(phrase) /\ SubSeq(m, 1, Len(phrase)) = phrase

\* mockClassifyResponse: the STOP keywords (m is the lower-cased, trimmed message)
IsStopMessage(m) ==
     \/ m = << "s", "t", "o", "p" >>
     \/ m = << "u", "n", "s", "u", "b", "s", "c", "r", "i", "b", "e" >>
     \/ m = << "c", "a", "n", "c", "e", "l" >>
     \/ includes(m, << "s", "t", "o", "p", " ", "t", "e", "x", "t", "i", "n", "g" >>)
     \/ includes(m, << "r", "e", "m", "o", "v", "e", " ", "m", "e" >>)
     \/ includes(m, << "o", "p", "t", " ", "o", "u", "t" >>)

\* mockClassifyResponse: positive responses (m is the lower-cased, trimmed message)
IsInterestedMessage(m) ==
     \/ m = << "y", "e", "s" >>
     \/ m = << "y", "e", "a", "h" >>
     \/ m = << "s", "u", "r", "e" >>
     \/ m = << "i", "n", "t", "e", "r", "e", "s", "t", "e", "d" >>
     \/ includes(m, << "t", "e", "l", "l", " ", "m", "e", " ", "m", "o", "r", "e" >>)
     \/ includes(m, << "s", "o", "u", "n", "d", "s", " ", "g", "o", "o", "d" >>)
     \/ includes(m, << "i", "'", "m", " ", "i", "n", "t", "e", "r", "e", "s", "t", "e", "d" >>)
     \/ includes(m, << "s", "c", "h", "e", "d", "u", "l", "e" >>)

\* mockClassifyResponse: negative but not opt-out (m is the lower-cased, trimmed message)
IsNotNowMessage(m) ==
     \/ m = << "n", "o" >>
     \/ m = << "n", "o", "t", " ", "i", "n", "t", "e", "r", "e", "s", "t", "e", "d" >>
     \/ includes(m, << "n", "o", "t", " ", "r", "i", "g", "h", "t", " ", "n", "o", "w" >>)
     \/ includes(m, << "m", "a", "y", "b", "e", " ", "l", "a", "t", "e", "r" >>)
     \/ includes(m, << "n", "o", "t", " ", "a", " ", "g", "o", "o", "d", " ", "t", "i", "m", "e" >>)

\* mockClassifyResponse: confirmation (m is the lower-cased, trimmed message)
IsConfirmMessage(m) ==
     \/ m = << "c", "o", "n", "f", "i", "r", "m" >>
     \/ m = << "c", "o", "n", "f", "i", "r", "m", "e", "d" >>
     \/ m = << "o", "k" >>
     \/ m = << "s", "o", "u", "n", "d", "s", " ", "g", "o", "o", "d" >>
     \/ includes(m, << "s", "e", "e", " ", "y", "o", "u", " ", "t", "h", "e", "n" >>)
     \/ includes(m, << "t", "h", "a", "t", " ", "w", "o", "r", "k", "s" >>)

\* mockClassifyResponse: reschedule (m is the lower-cased, trimmed message)
IsRescheduleMessage(m) ==
     \/ includes(m, << "r", "e", "s", "c", "h", "e", "d", "u", "l", "e" >>)
     \/ includes(m, << "d", "i", "f", "f", "e", "r", "e", "n", "t", " ", "t", "i", "m", "e" >>)
     \/ includes(m, << "c", "h", "a", "n", "g", "e" >>)
     \/ includes(m, << "c", "a", "n", "'", "t", " ", "m", "a", "k", "e", " ", "i", "t" >>)

\* mockClassifyResponse: question mark or question word (m is the lower-cased, trimmed message)
IsQuestionMessage(m) ==
     \/ includes(m, << "?" >>)
     \/ startsWith(m, << "w", "h", "a", "t" >>)
     \/ startsWith(m, << "h", "o", "w" >>)
     \/ startsWith(m, << "w", "h", "e", "n" >>)
     \/ startsWith(m, << "w", "h", "e", "r", "e" >>)
     \/ startsWith(m, << "w", "h", "y" >>)
     \/ startsWith(m, << "w", "h", "o" >>)

\* mockClassifyResponse: /^[1-5]$/
IsNumberSelection(m) == Len(m) = 1 /\ m[1] \in { "1", "2", "3", "4", "5" }

\* a MessageClassification: intent, confidence (in hundredths) and
\* extractedInfo.preferredTime (0: absent)
Classification(intent, confidence, preferredTime) ==
  [intent |-> intent, confidence |-> confidence, preferredTime |-> preferredTime]

DigitValue(c) ==
  CASE c = "1" -> 1 [] c = "2" -> 2 [] c = "3" -> 3 [] c = "4" -> 4 [] OTHER -> 5

\* LanguageService.mockClassifyResponse(message): the first rule that matches
mockClassifyResponse(message) ==
  LET m == trim(toLowerCase(message))
  IN IF IsStopMessage(m) THEN Classification("stop", 99, 0)
     ELSE IF IsInterestedMessage(m) THEN Classification("interested", 90, 0)
     ELSE IF IsNotNowMessage(m) THEN Classification("not_now", 85, 0)
     ELSE IF IsConfirmMessage(m) THEN Classification("confirm", 85, 0)
     ELSE IF IsRescheduleMessage(m) THEN Classification("reschedule", 85, 0)
     ELSE IF IsQuestionMessage(m) THEN Classification("question", 80, 0)
     ELSE IF IsNumberSelection(m) THEN Classification("confirm", 90, DigitValue(m[1]))
     ELSE Classification("unknown", 50, 0)

\* LanguageService.classifyResponse(message)
classifyResponse(message) == mockClassifyResponse(message)

\* the purposes draftMessage is called with
DraftPurposes ==
  { "initial_contact", "follow_up", "appointment_proposal", "confirmation", "response" }

\* the words the customers' messages are made of
Words ==
  { << "S", "T", "O", "P" >>,
    << "s", "t", "o", "p" >>,
    << "u", "n", "s", "u", "b", "s", "c", "r", "i", "b", "e" >>,
    << "p", "l", "e", "a", "s", "e" >>,
    << "m", "e" >>,
    << "y", "e", "s" >>,
    << "r", "e", "s", "c", "h", "e", "d", "u", "l", "e" >>,
    << "c", "h", "a", "n", "g", "e" >>,
    << "n", "o" >>,
    << "w", "h", "a", "t" >> }

RECURSIVE WordSeqs(_)
WordSeqs(n) ==
  IF n = 0 THEN { << >> }
  ELSE { Append(ws, w) : ws \in WordSeqs(n - 1), w \in Words }

\* the words separated by single spaces
RECURSIVE Join(_)
Join(ws) ==
  IF Len(ws) = 0 THEN << >>
  ELSE IF Len(ws) = 1 THEN ws[1]
  ELSE ws[1] \o << " " >> \o Join(Tail(ws))

\* the messages of one to MaxWords words
Messages == UNION { { Join(ws) : ws \in WordSeqs(n) } : n \in 1..MaxWords }

\* the messages the language service is given
SampleMessages ==
  { << "S", "T", "O", "P" >>,
    << "P", "l", "e", "a", "s", "e", " ", "s", "t", "o", "p", " ", "t", "e", "x", "t", "i", "n", "g", " ", "m", "e" >>,
    << " ", "Y", "e", "s", " " >>,
    << "n", "o" >>,
    << "o", "k" >>,
    << "2" >>,
    << "C", "a", "n", " ", "w", "e", " ", "r", "e", "s", "c", "h", "e", "d", "u", "l", "e" >>,
    << "W", "h", "a", "t", " ", "i", "s", " ", "t", "h", "e", " ", "p", "r", "i", "c", "e", "?" >>,
    << "h", "e", "l", "l", "o" >> }

----------------------------------------------------------------------------
(* State *)

VARIABLES
  heap,      \* lead objects still referenced by the store or by a call in flight
  store,     \* LeadStorage.leads: lead id -> reference into heap
  hist,      \* lead id -> stateHistory
  slots,     \* MockCalendarProvider.slots: slot id -> [available, leadId]
  now,       \* the clock, in units of the 24 h follow-up delay
  handlers,  \* the orchestrator calls in flight, each suspended at an await
  calls,     \* number of orchestrator calls started so far
  cfg,       \* which inputs this specification draws (fixed by Init)
  sentNow,   \* the message handed to SmsProvider.send by the last step
  ret,       \* the value returned to the caller by the last step
  events,    \* the events delivered to the listeners by the last step, in order
  smResult,  \* result of the last direct LeadStateMachine call
  db,        \* LeadStorage as its clients see it: leads (id -> id and phone) and leadsByPhone
  minuteOfDay \* the time of day in the contact timezone, in minutes since midnight

vars == << heap, store, hist, slots, now, handlers, calls, cfg, sentNow, ret, events,
          smResult, db, minuteOfDay >>

\* LeadStorage.initializeSampleData: Map insertion order
LeadOrder == << "John", "Sarah", "Michael" >>
LeadIds == { LeadOrder[i] : i \in DOMAIN LeadOrder }
SampleConsent == [ John |-> TRUE, Sarah |-> TRUE, Michael |-> FALSE ]

\* createLead: maxContactAttempts: params.maxContactAttempts ?? 5
DefaultMaxContactAttempts == 5

\* createLead(params): the object literal has no appointmentSlot, proposedSlots
\* or nextContactAt property
createLead(id, consentVerified) ==
  [ id |-> id,
    state |-> IF consentVerified THEN "consent_verified" ELSE "new",
    consentVerified |-> consentVerified,
    contactAttempts |-> << >>,
    maxContactAttempts |-> DefaultMaxContactAttempts ]

createLeadHistory(consentVerified) ==
  << StateChange("new",
                 IF consentVerified THEN "consent_verified" ELSE "new",
                 IF consentVerified THEN "initial_consent_verified" ELSE "lead_created",
                 FALSE) >>

Intents == { "stop", "interested", "not_now", "confirm", "reschedule",
             "question", "unknown" }

\* extractedInfo.preferredTime: 0 stands for "absent"; a call suspended in
\* bookAppointment keeps it in pref
Prefs == 0..(cfg.numSlots + 1)

NoMsg == [lead |-> "none", kind |-> "none"]
Msg(l, kind) == [lead |-> l, kind |-> kind]

NoRet == [op |-> "none", lead |-> "none", action |-> "none", success |-> FALSE,
          status |-> "none", error |-> "none", processed |-> 0, errors |-> 0,
          message |-> << >>]

Idle == [pc |-> "idle", op |-> "none", lead |-> "none", obj |-> 0,
         intent |-> "none", pref |-> 0, slot |-> 0, book |-> "none",
         via |-> "none", ready |-> << >>, processed |-> 0]

HandlerIds == 1..MaxInFlight

World == [heap |-> heap, store |-> store, hist |-> hist, slots |-> slots,
          events |-> << >>]

\* emitEvent(event): every listener is called before emitEvent returns
Event(type, l, fromState, toState, trigger) ==
  [type |-> type, lead |-> l, fromState |-> fromState, toState |-> toState,
   trigger |-> trigger]

emitEvent(W, type, l) ==
  [W EXCEPT !.events = Append(@, Event(type, l, "none", "none", "none"))]

\* SmsAppointmentWorkflow.emitStateUpdate(leadId, fromState, toState, trigger)
emitStateUpdate(W, l, fromState, toState, trigger) ==
  [W EXCEPT !.events = Append(@, Event("lead_state_update", l, fromState, toState, trigger))]

\* ContactAttempt records: direction, status and which message it was
Outbound(kind, status) == [direction |-> "outbound", status |-> status, kind |-> kind]
Inbound(intent) == [direction |-> "inbound", status |-> "responded", kind |-> intent]

Has(obj, k) == k \in DOMAIN obj

----------------------------------------------------------------------------
(* Outcome of one synchronous stretch of a call *)

Done(W, r) == [W |-> W, h |-> Idle, sent |-> NoMsg, ret |-> r]

Await(W, h, pc, msg) == [W |-> W, h |-> [h EXCEPT !.pc = pc], sent |-> msg, ret |-> NoRet]

\* a sendSms that refuses nothing
sendSmsNeverRefuses(state) == FALSE

\* SmsService.sendSms refuses before it reaches the provider
sendSmsRefuses(state) == state = "opted_out"

ExecutionRet(l, status, error) ==
  [NoRet EXCEPT !.op = "startForLead", !.lead = l, !.status = status,
                !.error = error, !.success = (status = "completed")]

ActionOf(intent) ==
  CASE intent = "stop" -> "opt_out"
    [] intent = "interested" -> "interested"
    [] intent = "not_now" -> "not_interested"
    [] intent = "confirm" -> "appointment_confirmed"
    [] intent = "reschedule" -> "reschedule_requested"
    [] intent = "question" -> "question_received"
    [] OTHER -> "unknown_response"

\* handleClassifiedResponse: return { success: true, lead, action }
MessageRet(h) ==
  [NoRet EXCEPT !.op = "processIncomingMessage", !.lead = h.lead,
                !.action = ActionOf(h.intent), !.success = TRUE]

----------------------------------------------------------------------------
(* appointmentService.ts *)

\* MockCalendarProvider.getAvailableSlots + AppointmentService.getAvailableSlots:
\* the available slots in ascending date order (slot ids are in date order),
\* cut to `limit`
RECURSIVE AvailableFrom(_, _)
AvailableFrom(sl, s) ==
  IF s \notin DOMAIN sl THEN << >>
  ELSE IF sl[s].available THEN << s >> \o AvailableFrom(sl, s + 1)
       ELSE AvailableFrom(sl, s + 1)

getAvailableSlots(sl, limit) ==
  LET all == AvailableFrom(sl, 1)
  IN SubSeq(all, 1, IF Len(all) < limit THEN Len(all) ELSE limit)

\* workflow: appointmentService.proposeSlots(lead, 3)
ProposeCount == 3

\* MockCalendarProvider.bookSlot: the check and the set, with no await between
bookSlotOk(sl, slotId) == slotId \in DOMAIN sl /\ sl[slotId].available

bookSlotError(sl, slotId) ==
  IF slotId \notin DOMAIN sl THEN "Slot not found"
  ELSE IF ~sl[slotId].available THEN "Slot already booked"
  ELSE "none"

\* a bookSlot that sets without checking
bookSlotNoCheck(sl, slotId, leadId) ==
  [sl EXCEPT ![slotId] = [available |-> FALSE, leadId |-> leadId]]

bookSlot(sl, slotId, leadId) ==
  IF bookSlotOk(sl, slotId)
  THEN [sl EXCEPT ![slotId] = [available |-> FALSE, leadId |-> leadId]]
  ELSE sl

\* MockCalendarProvider.cancelSlot
cancelSlot(sl, slotId) ==
  IF slotId \in DOMAIN sl
  THEN [sl EXCEPT ![slotId] = [available |-> TRUE, leadId |-> "none"]]
  ELSE sl

\* AppointmentService.bookAppointment: the checks made before the provider call
bookAppointmentRejects(state) ==
  state = "opted_out" \/ state = "appointment_confirmed"

----------------------------------------------------------------------------
(* smsAppointmentWorkflow.ts: the private steps *)

\* proposeAppointmentSlots starts by awaiting appointmentService.proposeSlots
proposeAppointmentSlots(W, h, via) ==
  Await(W, [h EXCEPT !.via = via], "prop_list", NoMsg)

\* the two events at the end of proposeAppointmentSlots
emitProposed(W, h) ==
  emitStateUpdate(emitEvent(W, "appointment_proposed", h.lead),
                  h.lead, W.heap[h.obj].state, "appointment_proposed",
                  "propose_appointment")

\* what the caller does once proposeAppointmentSlots has returned: case
\* 'interested' of handleClassifiedResponse emits its state update, the other
\* callers return
afterPropose(W, h) ==
  IF h.via = "interested"
  THEN emitStateUpdate(W, h.lead, W.heap[h.obj].state, "interested", "classify_interested")
  ELSE W

\* proposeAppointmentSlots after the slot list has arrived
proposeAppointmentSlotsListed(W, h) ==
  LET o == h.obj
      l == h.lead
      found == getAvailableSlots(W.slots, ProposeCount)
  IN IF Len(found) = 0
     THEN LET W1 == transition(W, o, "escalate")
              W2 == updateLead(W1, l, o)
          IN Done(afterPropose(W2, h), MessageRet(h))
     ELSE LET W1 == update(W, l, [proposedSlots |-> found])
          IN IF sendSmsRefuses(W1.heap[o].state)
             THEN LET W2 == transition(W1, o, "propose_appointment")
                      W3 == updateLead(W2, l, o)
                  IN Done(afterPropose(emitProposed(W3, h), h), MessageRet(h))
             ELSE Await(W1, h, "prop_send", Msg(l, "appointmentProposal"))

\* proposeAppointmentSlots after sendSms has returned (its result is not read)
proposeAppointmentSlotsSent(W, h) ==
  LET o == h.obj
      W1 == transition(W, o, "propose_appointment")
      W2 == updateLead(W1, h.lead, o)
  IN Done(afterPropose(emitProposed(W2, h), h), MessageRet(h))

\* what the caller does once the reply's sendSms has returned: the events of
\* handleClassifiedResponse (stop, not_now) and of
\* handleAppointmentConfirmation (booking succeeded)
afterReply(W, h) ==
  LET st == W.heap[h.obj].state
  IN CASE h.intent = "stop" ->
            emitStateUpdate(W, h.lead, st, "opted_out", "opt_out_received")
       [] h.intent = "not_now" ->
            emitStateUpdate(W, h.lead, st, "not_interested", "classify_not_interested")
       [] h.intent = "confirm" /\ h.book = "ok" ->
            emitStateUpdate(emitEvent(W, "appointment_confirmed", h.lead),
                            h.lead, st, "appointment_confirmed", "confirm_appointment")
       [] OTHER -> W

\* a reply whose result is not read: sendSms(lead, body) as the last statement
sendReply(W, h, kind) ==
  IF sendSmsRefuses(W.heap[h.obj].state)
  THEN Done(afterReply(W, h), MessageRet(h))
  ELSE Await(W, h, "reply_send", Msg(h.lead, kind))

\* handleAppointmentConfirmation: which proposed slot the message selects
\* (0: none)
selectedSlot(lead, pref) ==
  LET proposed == IF Has(lead, "proposedSlots") THEN lead.proposedSlots ELSE << >>
  IN IF pref >= 1 /\ pref <= Len(proposed) THEN proposed[pref]
     ELSE IF Len(proposed) > 0 THEN proposed[1]
     ELSE 0

\* handleAppointmentConfirmation up to the await on bookSlot
handleAppointmentConfirmation(W, h, pref) ==
  LET lead == W.heap[h.obj]
      sel == selectedSlot(lead, pref)
  IN IF sel = 0 THEN proposeAppointmentSlots(W, h, "confirm_noslot")
     ELSE IF bookAppointmentRejects(lead.state)
          THEN proposeAppointmentSlots(W, [h EXCEPT !.book = "rejected"], "confirm_bookfail")
          ELSE Await(W, [h EXCEPT !.slot = sel, !.pref = pref], "book", NoMsg)

\* handleAppointmentConfirmation ending the call when the booking fails,
\* without a new proposal
handleAppointmentConfirmationBookedNoRepropose(W, h) ==
  LET o == h.obj
      l == h.lead
  IN IF ~bookSlotOk(W.slots, h.slot)
     THEN Done(W, MessageRet([h EXCEPT !.pref = 0]))
     ELSE LET W0 == [W EXCEPT !.slots = bookSlot(W.slots, h.slot, l)]
              W1 == update(W0, l, [appointmentSlot |-> h.slot, proposedSlots |-> << >>])
              W2 == transition(W1, o, "confirm_appointment")
              W3 == updateLead(W2, l, o)
          IN sendReply(W3, [h EXCEPT !.book = "ok", !.pref = 0], "appointmentConfirmation")

\* handleAppointmentConfirmation from the provider's bookSlot on
handleAppointmentConfirmationBooked(W, h) ==
  LET o == h.obj
      l == h.lead
  IN IF ~bookSlotOk(W.slots, h.slot)
     THEN proposeAppointmentSlots(W, [h EXCEPT !.book = bookSlotError(W.slots, h.slot),
                                               !.pref = 0],
                                  "confirm_bookfail")
     ELSE LET W0 == [W EXCEPT !.slots = bookSlot(W.slots, h.slot, l)]
              W1 == update(W0, l, [appointmentSlot |-> h.slot, proposedSlots |-> << >>])
              W2 == transition(W1, o, "confirm_appointment")
              W3 == updateLead(W2, l, o)
          IN sendReply(W3, [h EXCEPT !.book = "ok", !.pref = 0], "appointmentConfirmation")

\* handleRescheduleRequest up to the await on cancelAppointment, or, with no
\* appointment, up to the await in proposeAppointmentSlots
handleRescheduleRequest(W, h) ==
  LET o == h.obj
      lead == W.heap[o]
  IN IF Has(lead, "appointmentSlot") /\ lead.appointmentSlot # 0
     THEN Await(W, [h EXCEPT !.slot = lead.appointmentSlot], "cancel", NoMsg)
     ELSE LET W1 == transition(W, o, "reschedule_requested")
              W2 == updateLead(W1, h.lead, o)
          IN proposeAppointmentSlots(W2, h, "reschedule")

\* handleRescheduleRequest from the provider's cancelSlot on
handleRescheduleRequestCancelled(W, h) ==
  LET o == h.obj
      W0 == [W EXCEPT !.slots = cancelSlot(W.slots, h.slot)]
      W1 == emitEvent(update(W0, h.lead, [appointmentSlot |-> 0]),
                      "appointment_cancelled", h.lead)
      W2 == transition(W1, o, "reschedule_requested")
      W3 == updateLead(W2, h.lead, o)
  IN proposeAppointmentSlots(W3, h, "reschedule")

\* handleClassifiedResponse, case 'stop'
handleStop(W, h) ==
  LET o == h.obj
      W1 == forceTransition(W, o, "opted_out", "opt_out_received")
      W2 == updateLead(W1, h.lead, o)
  IN sendReply(W2, h, "optOutConfirmation")

\* handleClassifiedResponse(lead, classification, originalMessage)
handleClassifiedResponse(Wa, h, pref) ==
  LET o == h.obj
      l == h.lead
      W == emitEvent(Wa, "sms_received", l)
  IN CASE h.intent = "stop" -> handleStop(W, h)
       [] h.intent = "interested" ->
            LET W1 == transition(W, o, "receive_response")
                W2 == transition(W1, o, "classify_interested")
                W3 == updateLead(W2, l, o)
            IN proposeAppointmentSlots(W3, h, "interested")
       [] h.intent = "not_now" ->
            LET W1 == transition(W, o, "receive_response")
                W2 == transition(W1, o, "classify_not_interested")
                W3 == updateLead(W2, l, o)
            IN sendReply(W3, h, "notInterested")
       [] h.intent = "confirm" -> handleAppointmentConfirmation(W, h, pref)
       [] h.intent = "reschedule" -> handleRescheduleRequest(W, h)
       [] OTHER -> Await(W, h, "generate", NoMsg)

\* processIncomingMessage from the classifier's answer on
processIncomingMessageClassified(W, h, pref) ==
  handleClassifiedResponse(addContactAttempt(W, h.lead, Inbound(h.intent)), h, pref)

\* an executeWorkflow that does not look at the consent flag
executeWorkflowNoConsentCheck(W, h) ==
  LET o == h.obj
      l == h.lead
      lead == W.heap[o]
  IN IF ~canContact(lead.state)
     THEN Done(W, ExecutionRet(l, "failed", "Cannot contact lead in state"))
     ELSE LET W1 == transition(W, o, "schedule_contact")
          IN IF ~transitionOk(W1, o, "send_initial_sms")
             THEN Done(W1, ExecutionRet(l, "failed", "Cannot transition to initial_contact_sent"))
             ELSE Await(transition(W1, o, "send_initial_sms"), h, "init_send",
                        Msg(l, "initialContact"))

\* executeWorkflow + sendInitialContact up to the await on sendSms
executeWorkflow(W, h) ==
  LET o == h.obj
      l == h.lead
      lead == W.heap[o]
  IN IF ~lead.consentVerified
     THEN Done(W, ExecutionRet(l, "failed", "Lead consent not verified"))
     ELSE IF ~canContact(lead.state)
     THEN Done(W, ExecutionRet(l, "failed", "Cannot contact lead in state"))
     ELSE LET W0 == transition(W, o, "schedule_contact")
              W1 == IF transitionOk(W, o, "schedule_contact")
                    THEN emitStateUpdate(W0, l, lead.state, W0.heap[o].state,
                                         "schedule_contact")
                    ELSE W0
          IN IF ~transitionOk(W1, o, "send_initial_sms")
             THEN Done(W1, ExecutionRet(l, "failed", "Cannot transition to initial_contact_sent"))
             ELSE LET W2 == transition(W1, o, "send_initial_sms")
                  IN IF sendSmsRefuses(W2.heap[o].state)
                     THEN Done(W2, ExecutionRet(l, "failed", "Failed to send SMS"))
                     ELSE Await(W2, h, "init_send", Msg(l, "initialContact"))

\* a sendInitialContact that records the attempt and stops there
sendInitialContactSentNoAwait(W, h, ok) ==
  IF ~ok
  THEN Done(W, ExecutionRet(h.lead, "failed", "Failed to send SMS"))
  ELSE Done(updateLead(addContactAttempt(W, h.lead, Outbound("initialContact", "sent")),
                       h.lead, h.obj),
            ExecutionRet(h.lead, "completed", "none"))

\* a sendInitialContact that sends the message again when the provider fails
sendInitialContactSentRetry(W, h, ok) ==
  LET o == h.obj
      l == h.lead
  IN IF ~ok
     THEN Await(W, h, "init_send", Msg(l, "initialContact"))
     ELSE LET W1 == addContactAttempt(W, l, Outbound("initialContact", "sent"))
              W2 == transition(W1, o, "await_response")
              W3 == updateLead(W2, l, o)
              W4 == updateLead(W3, l, o)
          IN Done(W4, ExecutionRet(l, "completed", "none"))

\* sendInitialContact from the provider's answer on, then the rest of
\* executeWorkflow and startForLead
sendInitialContactSent(W, h, ok) ==
  LET o == h.obj
      l == h.lead
  IN IF ~ok
     THEN Done(W, ExecutionRet(l, "failed", "Failed to send SMS"))
     ELSE LET W1 == addContactAttempt(W, l, Outbound("initialContact", "sent"))
              W2 == transition(W1, o, "await_response")
              W3 == updateLead(W2, l, o)
              E1 == emitStateUpdate(W3, l, "contact_scheduled", "initial_contact_sent",
                                    "send_initial_sms")
              E2 == emitEvent(E1, "sms_sent", l)
              W4 == updateLead(E2, l, o)
          IN Done(W4, ExecutionRet(l, "completed", "none"))

----------------------------------------------------------------------------
(* leadStorage.ts: getReadyForContact; workflow: runScheduledContacts *)

ContactableStates == { "consent_verified", "contact_scheduled", "awaiting_response" }

\* the filter of getReadyForContact without the attempt cap
isReadyForContactNoCap(lead, t) ==
  /\ lead.state \in ContactableStates
  /\ ~(Has(lead, "nextContactAt") /\ lead.nextContactAt > t)

isReadyForContact(lead, t) ==
  /\ lead.state \in ContactableStates
  /\ ~(Len(lead.contactAttempts) >= lead.maxContactAttempts)
  /\ ~(Has(lead, "nextContactAt") /\ lead.nextContactAt > t)

\* the stored objects that pass the filter, in Map insertion order
RECURSIVE ReadyFrom(_, _, _)
ReadyFrom(W, t, i) ==
  IF i > Len(LeadOrder) THEN << >>
  ELSE LET o == W.store[LeadOrder[i]]
       IN (IF isReadyForContact(W.heap[o], t) THEN << o >> ELSE << >>)
            \o ReadyFrom(W, t, i + 1)

getReadyForContact(W, t) == ReadyFrom(W, t, 1)

outboundCount(lead) ==
  Cardinality({ i \in DOMAIN lead.contactAttempts :
                  lead.contactAttempts[i].direction = "outbound" })

TickRet(processed, errors) ==
  [NoRet EXCEPT !.op = "runScheduledContacts", !.success = TRUE,
                !.processed = processed, !.errors = errors]

\* the for loop of runScheduledContacts over the leads fetched at its start:
\* contactLead for each, up to the first one that awaits the provider
RECURSIVE contactLoop(_, _)
contactLoop(W, h) ==
  IF h.ready = << >>
  THEN Done(W, TickRet(h.processed, 0))
  ELSE LET o == Head(h.ready)
           lead == W.heap[o]
           next == [h EXCEPT !.ready = Tail(h.ready), !.processed = @ + 1]
       IN IF ~canContact(lead.state) THEN contactLoop(W, next)
          ELSE IF outboundCount(lead) + 1 > lead.maxContactAttempts
          THEN LET W1 == transition(W, o, "max_attempts_reached")
                   W2 == updateLead(W1, lead.id, o)
                   W3 == emitStateUpdate(W2, lead.id, W2.heap[o].state, "failed",
                                         "max_attempts_reached")
               IN contactLoop(W3, next)
          ELSE IF sendSmsRefuses(lead.state) THEN contactLoop(W, next)
          ELSE Await(W, [h EXCEPT !.ready = Tail(h.ready), !.obj = o, !.lead = lead.id],
                     "fu_send", Msg(lead.id, "followUp"))

\* contactLead from the provider's answer on, then the rest of the loop
contactLeadSent(W, h, ok, t) ==
  LET W2 == IF ok
            THEN update(addContactAttempt(W, h.lead, Outbound("followUp", "sent")),
                        h.lead, [nextContactAt |-> t + 1])
            ELSE W
  IN contactLoop(W2, [h EXCEPT !.obj = 0, !.lead = "none", !.processed = @ + 1])

----------------------------------------------------------------------------
(* Objects no longer referenced are dropped and the rest renumbered in the  *)
(* order store, handlers: object references carry no meaning of their own.  *)

RECURSIVE HandlerRefs(_, _)
HandlerRefs(hs, i) ==
  IF i > MaxInFlight THEN << >>
  ELSE (IF hs[i].obj # 0 THEN << hs[i].obj >> ELSE << >>) \o hs[i].ready
         \o HandlerRefs(hs, i + 1)

Roots(W, hs) ==
  [i \in 1..Len(LeadOrder) |-> W.store[LeadOrder[i]]] \o HandlerRefs(hs, 1)

FirstPos(R, o) == CHOOSE i \in DOMAIN R : R[i] = o /\ \A j \in 1..(i-1) : R[j] # o

NewRef(R, o) ==
  IF o = 0 THEN 0
  ELSE Cardinality({ FirstPos(R, R[j]) : j \in 1..(FirstPos(R, o) - 1) }) + 1

CommitWith(hs, W, R, live, sent, r) ==
  /\ heap' = [n \in 1..Cardinality(live) |->
                 W.heap[CHOOSE o \in live : NewRef(R, o) = n]]
  /\ store' = [l \in DOMAIN W.store |-> NewRef(R, W.store[l])]
  /\ hist' = W.hist
  /\ slots' = W.slots
  /\ handlers' = [j \in HandlerIds |->
                    [hs[j] EXCEPT !.obj = NewRef(R, @),
                                  !.ready = [k \in DOMAIN @ |-> NewRef(R, @[k])]]]
  /\ sentNow' = sent
  /\ ret' = r
  /\ events' = W.events

CommitRoots(hs, W, R, sent, r) ==
  CommitWith(hs, W, R, { R[j] : j \in DOMAIN R }, sent, r)

Commit(i, out) ==
  CommitRoots([handlers EXCEPT ![i] = out.h], out.W,
              Roots(out.W, [handlers EXCEPT ![i] = out.h]), out.sent, out.ret)

InFlight == { j \in HandlerIds : handlers[j].pc # "idle" }

\* a new call takes the first free handler
CanStart(i) ==
  /\ handlers[i].pc = "idle"
  /\ \A j \in 1..(i-1) : handlers[j].pc # "idle"
  /\ calls < cfg.maxCalls
  /\ Cardinality(InFlight) < cfg.maxInFlight

----------------------------------------------------------------------------
(* Actions: the public entry points and the resumptions after each await *)

\* startForLead(leadId)
StartForLead(i, l) ==
  /\ CanStart(i)
  /\ l \in cfg.targets
  /\ calls' = calls + 1
  /\ Commit(i, executeWorkflow(World,
        [Idle EXCEPT !.op = "startForLead", !.lead = l, !.obj = store[l]]))
  /\ UNCHANGED << now, cfg, smResult, db, minuteOfDay >>

\* the provider answers the initial message
InitialSendDone(i, ok) ==
  /\ handlers[i].pc = "init_send"
  /\ Commit(i, sendInitialContactSent(World, handlers[i], ok))
  /\ UNCHANGED << now, calls, cfg, smResult, db, minuteOfDay >>

\* a processIncomingMessage that resolves a phone it does not know to the
\* first stored lead
ProcessIncomingMessageAnyPhone(i, phone) ==
  /\ CanStart(i)
  /\ phone \in cfg.targets \cup { "unknown" }
  /\ LET l == IF phone \in DOMAIN store THEN phone ELSE LeadOrder[1]
     IN Commit(i, Await(emitEvent(World, "sms_received", l),
               [Idle EXCEPT !.op = "processIncomingMessage", !.lead = l,
                            !.obj = store[l]],
               "classify", NoMsg))
  /\ calls' = calls + 1
  /\ UNCHANGED << now, cfg, smResult, db, minuteOfDay >>

\* processIncomingMessage(fromPhone, ...) up to the await on classifyResponse;
\* a call from an unknown phone returns at once and is not counted in calls
ProcessIncomingMessage(i, phone) ==
  /\ CanStart(i)
  /\ phone \in cfg.targets \cup { "unknown" }
  /\ IF phone \notin DOMAIN store
     THEN /\ Commit(i, Done(World,
               [NoRet EXCEPT !.op = "processIncomingMessage", !.action = "lead_not_found"]))
          /\ calls' = calls
     ELSE /\ Commit(i, Await(emitEvent(World, "sms_received", phone),
               [Idle EXCEPT !.op = "processIncomingMessage", !.lead = phone,
                            !.obj = store[phone]],
               "classify", NoMsg))
          /\ calls' = calls + 1
  /\ UNCHANGED << now, cfg, smResult, db, minuteOfDay >>

\* the classifier answers
ClassifyDone(i, intent, pref) ==
  /\ handlers[i].pc = "classify"
  /\ intent \in cfg.intents
  /\ pref # 0 => intent = "confirm"
  /\ Commit(i, processIncomingMessageClassified(World,
        [handlers[i] EXCEPT !.intent = intent], pref))
  /\ UNCHANGED << now, calls, cfg, smResult, db, minuteOfDay >>

\* generateResponse answers: the reply to a question or an unknown message
GenerateDone(i) ==
  /\ handlers[i].pc = "generate"
  /\ Commit(i, sendReply(World, handlers[i], "response"))
  /\ UNCHANGED << now, calls, cfg, smResult, db, minuteOfDay >>

\* the provider answers a reply whose result is not read
ReplySendDone(i) ==
  /\ handlers[i].pc = "reply_send"
  /\ Commit(i, Done(afterReply(World, handlers[i]), MessageRet(handlers[i])))
  /\ UNCHANGED << now, calls, cfg, smResult, db, minuteOfDay >>

\* the calendar provider returns the available slots
SlotsListed(i) ==
  /\ handlers[i].pc = "prop_list"
  /\ Commit(i, proposeAppointmentSlotsListed(World, handlers[i]))
  /\ UNCHANGED << now, calls, cfg, smResult, db, minuteOfDay >>

\* the provider answers the proposal message
ProposalSendDone(i) ==
  /\ handlers[i].pc = "prop_send"
  /\ Commit(i, proposeAppointmentSlotsSent(World, handlers[i]))
  /\ UNCHANGED << now, calls, cfg, smResult, db, minuteOfDay >>

\* the calendar provider runs bookSlot
BookDone(i) ==
  /\ handlers[i].pc = "book"
  /\ Commit(i, handleAppointmentConfirmationBooked(World, handlers[i]))
  /\ UNCHANGED << now, calls, cfg, smResult, db, minuteOfDay >>

\* the calendar provider runs cancelSlot
CancelDone(i) ==
  /\ handlers[i].pc = "cancel"
  /\ Commit(i, handleRescheduleRequestCancelled(World, handlers[i]))
  /\ UNCHANGED << now, calls, cfg, smResult, db, minuteOfDay >>

\* runScheduledContacts()
RunScheduledContacts(i) ==
  /\ CanStart(i)
  /\ calls' = calls + 1
  /\ Commit(i, contactLoop(World,
        [Idle EXCEPT !.op = "runScheduledContacts",
                     !.ready = getReadyForContact(World, now)]))
  /\ UNCHANGED << now, cfg, smResult, db, minuteOfDay >>

\* the provider answers a follow-up
FollowUpSendDone(i, ok) ==
  /\ handlers[i].pc = "fu_send"
  /\ Commit(i, contactLeadSent(World, handlers[i], ok, now))
  /\ UNCHANGED << now, calls, cfg, smResult, db, minuteOfDay >>

\* languageService.classifyResponse(message): the classification is the
\* returned value (action: the intent, processed: the confidence in
\* hundredths, errors: the preferred time, message: the argument); the
\* service holds no reference to the store, the state machine or the calendar
ClassifyResponse(message) ==
  LET c == classifyResponse(message)
  IN /\ ret' = [NoRet EXCEPT !.op = "classifyResponse", !.action = c.intent,
                             !.processed = c.confidence, !.errors = c.preferredTime,
                             !.message = message]
     /\ sentNow' = NoMsg
     /\ events' = << >>
     /\ UNCHANGED << heap, store, hist, slots, now, handlers, calls, cfg, smResult, db, minuteOfDay >>

\* languageService.draftMessage({purpose, leadName, ...}): the text drafted
\* for the purpose and the name (lead: the name, action: the purpose)
DraftMessage(purpose, leadName) ==
  /\ ret' = [NoRet EXCEPT !.op = "draftMessage", !.lead = leadName, !.action = purpose]
  /\ sentNow' = NoMsg
  /\ events' = << >>
  /\ UNCHANGED << heap, store, hist, slots, now, handlers, calls, cfg, smResult, db, minuteOfDay >>

\* languageService.generateResponse(question, {leadName}): without an API
\* key the fixed reply addressed to the name; with one, callOpenAI throws
\* and the catch returns the fixed reply without a name
GenerateResponse(leadName, useMock) ==
  /\ ret' = [NoRet EXCEPT !.op = "generateResponse",
                          !.lead = IF useMock THEN leadName ELSE "none"]
  /\ sentNow' = NoMsg
  /\ events' = << >>
  /\ UNCHANGED << heap, store, hist, slots, now, handlers, calls, cfg, smResult, db, minuteOfDay >>

\* 24 hours pass
AdvanceClock ==
  /\ now < MaxTime
  /\ now' = now + 1
  /\ sentNow' = NoMsg
  /\ events' = << >>
  /\ ret' = NoRet
  /\ UNCHANGED << heap, store, hist, slots, handlers, calls, cfg, smResult, db, minuteOfDay >>

----------------------------------------------------------------------------
(* Quiet hours *)

\* AgentRuntime default config: contact.quietHoursStart '21:00',
\* contact.quietHoursEnd '09:00', as minutes since midnight
QuietHoursStart == 21 * 60
QuietHoursEnd == 9 * 60

Noon == 12 * 60

\* the hour toLocaleTimeString('en-US', {hour: '2-digit', hour12: false})
\* prints: midnight is printed 00 or 24, depending on the engine's ICU data
FormattedHours(minutes) ==
  IF minutes \div 60 = 0 THEN { 0, 24 } ELSE { minutes \div 60 }

\* AppointmentService.isQuietHours(date, quietStart, quietEnd, timezone),
\* given the hour as printed
isQuietHours(hour, minute, quietStartMinutes, quietEndMinutes) ==
  LET currentMinutes == hour * 60 + minute
  IN IF quietStartMinutes > quietEndMinutes
     THEN currentMinutes >= quietStartMinutes \/ currentMinutes < quietEndMinutes
     ELSE currentMinutes >= quietStartMinutes /\ currentMinutes < quietEndMinutes

\* the times of day the clock is read at
TimesOfDay == << 0, 8 * 60 + 59, 9 * 60, Noon, 20 * 60 + 59, 21 * 60 >>

\* time passes to the next of the times of day
AdvanceTimeOfDay ==
  /\ \E k \in DOMAIN TimesOfDay :
        /\ TimesOfDay[k] = minuteOfDay
        /\ minuteOfDay' = TimesOfDay[(k % Len(TimesOfDay)) + 1]
  /\ sentNow' = NoMsg
  /\ events' = << >>
  /\ ret' = NoRet
  /\ UNCHANGED << heap, store, hist, slots, now, handlers, calls, cfg, smResult, db >>

----------------------------------------------------------------------------
(* LeadStorage: the lead map and the phone index.  A stored lead is kept   *)
(* here by its id and its phone; a Map is a function on the keys it holds. *)

SamplePhones == [ John |-> "+15551234567", Sarah |-> "+15559876543",
                  Michael |-> "+15555555555" ]

\* the phone numbers callers pass: the sample leads' and one more
Phones == { SamplePhones[l] : l \in LeadIds } \cup { "+15550000000" }

\* generateId(): the ids of the leads created after the sample data
NewIds == { "lead" \o ToString(n) : n \in 1..MaxCreated }

NoLead == [id |-> "none", phone |-> "none"]

\* Map.set / Map.delete
MapSet(f, k, v) == [x \in DOMAIN f \cup { k } |-> IF x = k THEN v ELSE f[x]]
MapDelete(f, k) == [x \in DOMAIN f \ { k } |-> f[x]]

\* LeadStorage constructor: initializeSampleData
SampleDb ==
  [leads |-> [l \in LeadIds |-> [id |-> l, phone |-> SamplePhones[l]]],
   leadsByPhone |-> [p \in { SamplePhones[l] : l \in LeadIds } |->
                       CHOOSE l \in LeadIds : SamplePhones[l] = p]]

\* LeadStorage.getByPhone(phone); NoLead stands for undefined
getByPhone(d, phone) ==
  IF phone \in DOMAIN d.leadsByPhone /\ d.leadsByPhone[phone] \in DOMAIN d.leads
  THEN d.leads[d.leadsByPhone[phone]]
  ELSE NoLead

\* LeadStorage.create(params)
create(d, id, phone) ==
  [leads |-> MapSet(d.leads, id, [id |-> id, phone |-> phone]),
   leadsByPhone |-> MapSet(d.leadsByPhone, phone, id)]

\* LeadStorage.update(id, updates) with updates.phone = phone: the lead map
\* and the phone index
updatePhone(d, id, phone) ==
  IF id \notin DOMAIN d.leads THEN d
  ELSE LET lead == d.leads[id]
       IN [leads |-> MapSet(d.leads, id, [lead EXCEPT !.phone = phone]),
           leadsByPhone |->
             IF phone # lead.phone
             THEN MapSet(MapDelete(d.leadsByPhone, lead.phone), phone, id)
             ELSE d.leadsByPhone]

\* LeadStorage.delete(id)
remove(d, id) ==
  IF id \notin DOMAIN d.leads THEN d
  ELSE [leads |-> MapDelete(d.leads, id),
        leadsByPhone |-> MapDelete(d.leadsByPhone, d.leads[id].phone)]

StoreFrame ==
  /\ sentNow' = NoMsg
  /\ events' = << >>
  /\ UNCHANGED << heap, store, hist, slots, now, handlers, calls, cfg, smResult, minuteOfDay >>

\* createNewLead(params): the id is fresh
StoreCreate(id, phone) ==
  /\ id \notin DOMAIN db.leads
  /\ db' = create(db, id, phone)
  /\ ret' = [NoRet EXCEPT !.op = "create", !.lead = id, !.success = TRUE]
  /\ StoreFrame

\* updateLead(id, {phone}): returns the updated lead, or null
StoreUpdate(id, phone) ==
  /\ db' = updatePhone(db, id, phone)
  /\ ret' = [NoRet EXCEPT !.op = "update", !.lead = id,
                          !.success = (id \in DOMAIN db.leads)]
  /\ StoreFrame

\* leadStorage.delete(id): returns whether the lead existed
StoreDelete(id) ==
  /\ db' = remove(db, id)
  /\ ret' = [NoRet EXCEPT !.op = "delete", !.lead = id,
                          !.success = (id \in DOMAIN db.leads)]
  /\ StoreFrame

\* getLeadByPhone(phone): returns the lead found, or undefined
StoreGetByPhone(phone) ==
  /\ ret' = [NoRet EXCEPT !.op = "getByPhone", !.lead = getByPhone(db, phone).id,
                          !.success = (getByPhone(db, phone) # NoLead)]
  /\ db' = db
  /\ StoreFrame

----------------------------------------------------------------------------
(* Specifications *)

NoSmResult == [op |-> "none", trigger |-> "none", from |-> "none", result |-> "none",
               unchanged |-> TRUE, canTransition |-> FALSE, canContact |-> FALSE]

\* LeadStorage constructor (sample leads), MockCalendarProvider.generateSlots
\* (any number of slots survives the random skipping), no call in flight
InitWith(c) ==
  /\ heap = [i \in 1..Len(LeadOrder) |->
               createLead(LeadOrder[i], SampleConsent[LeadOrder[i]])]
  /\ store = [l \in LeadIds |-> CHOOSE i \in 1..Len(LeadOrder) : LeadOrder[i] = l]
  /\ hist = [l \in LeadIds |-> createLeadHistory(SampleConsent[l])]
  /\ \E n \in 0..c.numSlots :
        slots = [s \in 1..n |-> [available |-> TRUE, leadId |-> "none"]]
  /\ now = 0
  /\ handlers = [i \in HandlerIds |-> Idle]
  /\ calls = 0
  /\ cfg = c
  /\ sentNow = NoMsg
  /\ events = << >>
  /\ ret = NoRet
  /\ smResult = NoSmResult
  /\ db = SampleDb
  /\ minuteOfDay = Noon

(* Spec: the orchestrator under concurrent calls.  Calls address John       *)
(* (consent verified) and Michael (consent not verified); Sarah is reached  *)
(* by the scheduled runner only.                                           *)

Init ==
  InitWith([targets |-> { "John", "Michael" }, intents |-> Intents,
            maxCalls |-> MaxCalls, maxInFlight |-> MaxInFlight,
            numSlots |-> NumSlots, maxHistory |-> 0])

Next ==
  \/ \E i \in HandlerIds, l \in LeadIds : StartForLead(i, l)
  \/ \E i \in HandlerIds, ok \in BOOLEAN : InitialSendDone(i, ok)
  \/ \E i \in HandlerIds, p \in LeadIds \cup { "unknown" } : ProcessIncomingMessage(i, p)
  \/ \E i \in HandlerIds, intent \in Intents, pref \in Prefs : ClassifyDone(i, intent, pref)
  \/ \E i \in HandlerIds : GenerateDone(i)
  \/ \E i \in HandlerIds : ReplySendDone(i)
  \/ \E i \in HandlerIds : SlotsListed(i)
  \/ \E i \in HandlerIds : ProposalSendDone(i)
  \/ \E i \in HandlerIds : BookDone(i)
  \/ \E i \in HandlerIds : CancelDone(i)
  \/ \E i \in HandlerIds : RunScheduledContacts(i)
  \/ \E i \in HandlerIds, ok \in BOOLEAN : FollowUpSendDone(i, ok)

Spec == Init /\ [][Next]_vars

(* SpecSeq: one call at a time, the appointment conversation of John and    *)
(* Sarah (interested / confirm / reschedule messages).                      *)

InitSeq ==
  InitWith([targets |-> { "John", "Sarah" },
            intents |-> { "interested", "confirm", "reschedule" },
            maxCalls |-> MaxCallsSeq, maxInFlight |-> 1, numSlots |-> NumSlots, maxHistory |-> 0])

NextSeq ==
  \/ \E l \in LeadIds : StartForLead(1, l)
  \/ \E ok \in BOOLEAN : InitialSendDone(1, ok)
  \/ \E p \in LeadIds : ProcessIncomingMessage(1, p)
  \/ \E intent \in Intents, pref \in Prefs : ClassifyDone(1, intent, pref)
  \/ ReplySendDone(1)
  \/ SlotsListed(1)
  \/ ProposalSendDone(1)
  \/ BookDone(1)
  \/ CancelDone(1)

SpecSeq == InitSeq /\ [][NextSeq]_vars

(* SpecSM: LeadStateMachine used directly on one lead (Michael, created in  *)
(* state new).                                                             *)

SmTriggers == Triggers \cup { "no_such_trigger" }

\* new LeadStateMachine(lead).transition(trigger)
SmTransition(l, trigger) ==
  /\ l \in cfg.targets
  /\ Len(hist[l]) < cfg.maxHistory \/ heap[store[l]].state \in TERMINAL_STATES
  /\ LET W == transition(World, store[l], trigger)
     IN /\ heap' = W.heap
        /\ hist' = W.hist
        /\ smResult' =
             [op |-> "transition", trigger |-> trigger,
              from |-> heap[store[l]].state,
              result |-> IF /\ transitionOk(World, store[l], trigger)
                            /\ getTargetState(heap[store[l]].state, trigger) # "null"
                         THEN "StateChange" ELSE "null",
              unchanged |-> (W = World),
              canTransition |-> canTransition(heap[store[l]].state, trigger),
              canContact |-> canContact(W.heap[store[l]].state)]
  /\ sentNow' = NoMsg
  /\ events' = << >>
  /\ ret' = NoRet
  /\ UNCHANGED << store, slots, now, handlers, calls, cfg, db, minuteOfDay >>

\* new LeadStateMachine(lead).forceTransition(newState, trigger)
SmForceTransition(l, newState, trigger) ==
  /\ l \in cfg.targets
  /\ Len(hist[l]) < cfg.maxHistory
  /\ LET W == forceTransition(World, store[l], newState, trigger)
     IN /\ heap' = W.heap
        /\ hist' = W.hist
        /\ smResult' =
             [op |-> "forceTransition", trigger |-> trigger,
              from |-> heap[store[l]].state,
              result |-> "StateChange",
              unchanged |-> (W = World),
              canTransition |-> canTransition(heap[store[l]].state, trigger),
              canContact |-> canContact(W.heap[store[l]].state)]
  /\ sentNow' = NoMsg
  /\ events' = << >>
  /\ ret' = NoRet
  /\ UNCHANGED << store, slots, now, handlers, calls, cfg, db, minuteOfDay >>

InitSM ==
  InitWith([targets |-> { "Michael" }, intents |-> { },
            maxCalls |-> 0, maxInFlight |-> 0, numSlots |-> 0,
            maxHistory |-> MaxHistory])

NextSM ==
  \/ \E l \in LeadIds, g \in SmTriggers : SmTransition(l, g)
  \/ \E l \in LeadIds, st \in LeadStates : SmForceTransition(l, st, "opt_out_received")

SpecSM == InitSM /\ [][NextSM]_vars

(* SpecBook: AppointmentService.bookAppointment called directly, the        *)
(* callers keeping what it returned.                                       *)

\* bookAppointment(lead, slotId) up to the await on provider.bookSlot
BookAppointment(i, l, slotId) ==
  /\ CanStart(i)
  /\ l \in cfg.targets
  /\ slotId \in DOMAIN slots
  /\ calls' = calls + 1
  /\ LET h == [Idle EXCEPT !.op = "bookAppointment", !.lead = l,
                           !.obj = store[l], !.slot = slotId]
     IN IF bookAppointmentRejects(heap[store[l]].state)
        THEN Commit(i, Await(World, [h EXCEPT !.book = "rejected"], "returned", NoMsg))
        ELSE Commit(i, Await(World, h, "book_only", NoMsg))
  /\ UNCHANGED << now, cfg, smResult, db, minuteOfDay >>

\* the calendar provider runs bookSlot; bookAppointment returns
BookAppointmentDone(i) ==
  /\ handlers[i].pc = "book_only"
  /\ LET h == handlers[i]
         W == [World EXCEPT !.slots = bookSlot(slots, h.slot, h.lead)]
         res == IF bookSlotOk(slots, h.slot) THEN "ok" ELSE bookSlotError(slots, h.slot)
     IN Commit(i, Await(W, [h EXCEPT !.book = res], "returned", NoMsg))
  /\ UNCHANGED << now, calls, cfg, smResult, db, minuteOfDay >>

InitBook ==
  InitWith([targets |-> LeadIds, intents |-> { },
            maxCalls |-> MaxCalls, maxInFlight |-> MaxInFlight,
            numSlots |-> NumSlots + 1, maxHistory |-> 0])

NextBook ==
  \/ \E i \in HandlerIds, l \in LeadIds, sl \in 1..(NumSlots + 1) : BookAppointment(i, l, sl)
  \/ \E i \in HandlerIds : BookAppointmentDone(i)

SpecBook == InitBook /\ [][NextBook]_vars

(* SpecStop: STOP and "not now" messages for a lead that direct use of its  *)
(* state machine has put in an arbitrary state.                            *)

InitStop ==
  InitWith([targets |-> { "Michael" }, intents |-> { "stop", "not_now" },
            maxCalls |-> MaxCallsStop, maxInFlight |-> MaxInFlight, numSlots |-> 0,
            maxHistory |-> MaxHistoryStop])

NextStop ==
  \/ \E l \in LeadIds, st \in LeadStates : SmForceTransition(l, st, "escalate")
  \/ \E i \in HandlerIds, p \in LeadIds : ProcessIncomingMessage(i, p)
  \/ \E i \in HandlerIds, intent \in Intents : ClassifyDone(i, intent, 0)
  \/ \E i \in HandlerIds : ReplySendDone(i)

SpecStop == InitStop /\ [][NextStop]_vars

(* SpecConfirm: one call at a time, John and Sarah answering "Yes" and      *)
(* choosing among several proposed slots.                                  *)

InitConfirm ==
  InitWith([targets |-> { "John", "Sarah" }, intents |-> { "interested", "confirm" },
            maxCalls |-> MaxCallsConfirm, maxInFlight |-> 1,
            numSlots |-> NumSlotsConfirm, maxHistory |-> 0])

NextConfirm ==
  \/ \E l \in LeadIds : StartForLead(1, l)
  \/ \E ok \in BOOLEAN : InitialSendDone(1, ok)
  \/ \E p \in LeadIds : ProcessIncomingMessage(1, p)
  \/ \E intent \in Intents, pref \in Prefs : ClassifyDone(1, intent, pref)
  \/ ReplySendDone(1)
  \/ SlotsListed(1)
  \/ ProposalSendDone(1)
  \/ BookDone(1)

SpecConfirm == InitConfirm /\ [][NextConfirm]_vars

(* SpecOptOut: one call at a time, John starting, opting out and answering *)
(* "Yes" or "not now".                                                     *)

InitOptOut ==
  InitWith([targets |-> { "John" }, intents |-> { "stop", "interested", "not_now" },
            maxCalls |-> MaxCalls, maxInFlight |-> 1,
            numSlots |-> NumSlots, maxHistory |-> 0])

NextOptOut ==
  \/ \E l \in LeadIds : StartForLead(1, l)
  \/ \E ok \in BOOLEAN : InitialSendDone(1, ok)
  \/ \E p \in LeadIds : ProcessIncomingMessage(1, p)
  \/ \E intent \in Intents : ClassifyDone(1, intent, 0)
  \/ ReplySendDone(1)
  \/ SlotsListed(1)
  \/ ProposalSendDone(1)

SpecOptOut == InitOptOut /\ [][NextOptOut]_vars

(* SpecNoConsent: startForLead, STOP and "not now" messages for Michael,     *)
(* whose consent is not verified, in an arbitrary state.                   *)

NextNoConsent ==
  \/ NextStop
  \/ \E i \in HandlerIds, l \in LeadIds : StartForLead(i, l)

SpecNoConsent == InitStop /\ [][NextNoConsent]_vars

(* SpecTick: the scheduled runner.  Leads are created with a small          *)
(* maxContactAttempts (createLead takes it as a parameter); John is         *)
(* started and sends questions, which are recorded as inbound attempts,     *)
(* the runner ticks, the provider accepts or fails each follow-up, and      *)
(* time advances by 24 hours.                                              *)

createLeadWithMax(id, consentVerified, maxAttempts) ==
  [createLead(id, consentVerified) EXCEPT !.maxContactAttempts = maxAttempts]

InitTick ==
  /\ \E m \in 1..MaxAttemptsTick :
        heap = [i \in 1..Len(LeadOrder) |->
                  createLeadWithMax(LeadOrder[i], SampleConsent[LeadOrder[i]], m)]
  /\ store = [l \in LeadIds |-> CHOOSE i \in 1..Len(LeadOrder) : LeadOrder[i] = l]
  /\ hist = [l \in LeadIds |-> createLeadHistory(SampleConsent[l])]
  /\ slots = << >>
  /\ now = 0
  /\ handlers = [i \in HandlerIds |-> Idle]
  /\ calls = 0
  /\ cfg = [targets |-> { "John" }, intents |-> { "question" },
            maxCalls |-> MaxCallsTick, maxInFlight |-> 1,
            numSlots |-> 0, maxHistory |-> 0]
  /\ sentNow = NoMsg
  /\ events = << >>
  /\ ret = NoRet
  /\ smResult = NoSmResult
  /\ db = SampleDb
  /\ minuteOfDay = Noon

NextTick ==
  \/ \E l \in LeadIds : StartForLead(1, l)
  \/ \E ok \in BOOLEAN : InitialSendDone(1, ok)
  \/ \E p \in LeadIds \cup { "unknown" } : ProcessIncomingMessage(1, p)
  \/ \E intent \in Intents, pref \in Prefs : ClassifyDone(1, intent, pref)
  \/ GenerateDone(1)
  \/ ReplySendDone(1)
  \/ RunScheduledContacts(1)
  \/ \E ok \in BOOLEAN : FollowUpSendDone(1, ok)
  \/ AdvanceClock

SpecTick == InitTick /\ [][NextTick]_vars

(* SpecQuiet: SpecTick while the time of day passes through the          *)
(* boundaries of the quiet-hours window.                                   *)

NextQuiet ==
  \/ NextTick
  \/ AdvanceTimeOfDay

SpecQuiet == InitTick /\ [][NextQuiet]_vars

(* SpecLang: the language service beside the orchestrator.  John is         *)
(* started and sends interest and questions, with up to MaxInFlight calls in    *)
(* flight; between the orchestrator's steps the language service           *)
(* classifies sample messages, drafts texts and generates replies.         *)

InitLang ==
  InitWith([targets |-> { "John" }, intents |-> { "interested", "question" },
            maxCalls |-> MaxCallsLang, maxInFlight |-> MaxInFlight,
            numSlots |-> NumSlots, maxHistory |-> 0])

NextLang ==
  \/ \E i \in HandlerIds, l \in LeadIds : StartForLead(i, l)
  \/ \E i \in HandlerIds, ok \in BOOLEAN : InitialSendDone(i, ok)
  \/ \E i \in HandlerIds, p \in LeadIds : ProcessIncomingMessage(i, p)
  \/ \E i \in HandlerIds, intent \in Intents : ClassifyDone(i, intent, 0)
  \/ \E i \in HandlerIds : GenerateDone(i)
  \/ \E i \in HandlerIds : ReplySendDone(i)
  \/ \E i \in HandlerIds : SlotsListed(i)
  \/ \E i \in HandlerIds : ProposalSendDone(i)
  \/ \E m \in SampleMessages : ClassifyResponse(m)
  \/ \E purpose \in DraftPurposes, l \in LeadIds : DraftMessage(purpose, l)
  \/ \E l \in LeadIds, useMock \in BOOLEAN : GenerateResponse(l, useMock)

SpecLang == InitLang /\ [][NextLang]_vars

(* SpecClassify: the language service alone, given every message of one to  *)
(* MaxWords words.                                                         *)

NextClassify ==
  \/ \E m \in Messages : ClassifyResponse(m)
  \/ \E purpose \in DraftPurposes, l \in LeadIds : DraftMessage(purpose, l)
  \/ \E l \in LeadIds, useMock \in BOOLEAN : GenerateResponse(l, useMock)

SpecClassify == InitLang /\ [][NextClassify]_vars

(* SpecStart: startForLead alone, called again and again on the sample     *)
(* leads, up to MaxInFlight calls overlapping, the provider accepting or   *)
(* failing each initial message.                                           *)

InitStart ==
  InitWith([targets |-> LeadIds, intents |-> { },
            maxCalls |-> MaxCallsStart, maxInFlight |-> MaxInFlight,
            numSlots |-> 0, maxHistory |-> 0])

NextStart ==
  \/ \E i \in HandlerIds, l \in LeadIds : StartForLead(i, l)
  \/ \E i \in HandlerIds, ok \in BOOLEAN : InitialSendDone(i, ok)

SpecStart == InitStart /\ [][NextStart]_vars

(* SpecStore: the lead store alone: leads are created, their phones are     *)
(* changed, they are deleted and looked up by phone.                       *)

NextStore ==
  \/ \E id \in NewIds, phone \in Phones : StoreCreate(id, phone)
  \/ \E id \in LeadIds \cup NewIds, phone \in Phones : StoreUpdate(id, phone)
  \/ \E id \in LeadIds \cup NewIds : StoreDelete(id)
  \/ \E phone \in Phones : StoreGetByPhone(phone)

SpecStore == InitSM /\ [][NextStore]_vars

----------------------------------------------------------------------------
(* Properties *)

Stored(l) == heap[store[l]]

LastChange(l) == hist[l][Len(hist[l])]

\* C1: for a lead in state opted_out, escalated or appointment_completed,
\* canTransition is false and transition returns null for every trigger,
\* state and stateHistory stay as they were, and canContact is false.
C1_TerminalStatesAbsorbing ==
  /\ \A st \in { "opted_out", "escalated", "appointment_completed" } :
        /\ ~canContact(st)
        /\ \A g \in SmTriggers : ~canTransition(st, g)
  /\ (smResult.op = "transition"
      /\ smResult.from \in { "opted_out", "escalated", "appointment_completed" })
     => /\ ~smResult.canTransition
        /\ smResult.result = "null"
        /\ smResult.unchanged
        /\ ~smResult.canContact

C1_Witness ==
  /\ smResult.op = "transition"
  /\ smResult.from = "appointment_completed"
  /\ smResult.trigger = "opt_out_received"
  /\ Stored("Michael").state = "appointment_completed"

\* C2: a message classified stop leaves the stored state opted_out whatever
\* the state before it was, and the StateChange it appends is a forced one.
C2_StopForcesOptedOut ==
  (ret.op = "processIncomingMessage" /\ ret.action = "opt_out")
  => /\ Stored(ret.lead).state = "opted_out"
     /\ LastChange(ret.lead).toState = "opted_out"
     /\ LastChange(ret.lead).forced

C2_Witness ==
  /\ ret.op = "processIncomingMessage"
  /\ ret.action = "opt_out"
  /\ LastChange(ret.lead).fromState = "consent_pending"
  /\ Stored(ret.lead).state = "opted_out"

\* C3: once a lead's stored state is opted_out it is opted_out in every
\* later state, whatever calls are made or were already in flight.
C3_OptOutPermanent ==
  [][\A l \in LeadIds :
        heap[store[l]].state = "opted_out" => heap'[store'[l]].state = "opted_out"]_vars

\* C4: no outbound message is handed to the SMS provider for a lead whose
\* stored state is opted_out at that moment.
C4_NoSendToOptedOut ==
  sentNow # NoMsg => Stored(sentNow.lead).state # "opted_out"

\* C5: a lead whose stored state is escalated or appointment_completed keeps
\* that state and gets no new stateHistory entry, whatever call comes later.
C5_EscalatedCompletedFrozen ==
  [][\A l \in LeadIds :
        heap[store[l]].state \in { "escalated", "appointment_completed" }
        => /\ heap'[store'[l]].state = heap[store[l]].state
           /\ hist'[l] = hist[l]]_vars

\* C6: no outbound message is sent to a lead whose consentVerified flag is
\* false.
C6_NoSendWithoutConsent ==
  sentNow # NoMsg => Stored(sentNow.lead).consentVerified

C8_SlotSingleOccupancy ==
  \A a, b \in LeadIds :
     (/\ a # b
      /\ Stored(a).state = "appointment_confirmed"
      /\ Stored(b).state = "appointment_confirmed"
      /\ Has(Stored(a), "appointmentSlot") /\ Has(Stored(b), "appointmentSlot")
      /\ Stored(a).appointmentSlot # 0)
     => Stored(a).appointmentSlot # Stored(b).appointmentSlot

\* C9: when the provider reports failure for the initial message, startForLead
\* ends with status failed, the stored state is not initial_contact_sent and
\* stateHistory has no send_initial_sms entry.
C9_FailedSendLeavesNoTransition ==
  (ret.op = "startForLead" /\ ret.error = "Failed to send SMS")
  => /\ ret.status = "failed"
     /\ Stored(ret.lead).state # "initial_contact_sent"
     /\ \A i \in DOMAIN hist[ret.lead] : hist[ret.lead][i].trigger # "send_initial_sms"

\* C10: when a stop message from a lead in a non-terminal state has been
\* processed, the last ContactAttempt of the stored lead is the outbound
\* opt-out confirmation the provider accepted, one more than the inbound
\* attempt before it.
C10_OptOutConfirmationRecorded ==
  (/\ ret.op = "processIncomingMessage" /\ ret.action = "opt_out"
   /\ LastChange(ret.lead).fromState \notin TERMINAL_STATES)
  => LET a == Stored(ret.lead).contactAttempts
     IN /\ Len(a) >= 2
        /\ a[Len(a)] = Outbound("optOutConfirmation", "sent")
        /\ a[Len(a) - 1] = Inbound("stop")

OptedOutBefore(l) == \E i \in DOMAIN hist[l] : hist[l][i].toState = "opted_out"

\* C11: while and after a message classified interested is handled for a lead
\* that an earlier call has opted out, nothing is handed to the provider and
\* the stored state is opted_out.
C11_InterestedAfterOptOutIsInert ==
  \A l \in LeadIds :
     (/\ OptedOutBefore(l)
      /\ \/ handlers[1].lead = l /\ handlers[1].intent = "interested"
         \/ ret.lead = l /\ ret.action = "interested")
     => /\ Stored(l).state = "opted_out"
        /\ sentNow = NoMsg

C11_Witness ==
  /\ ret.lead = "John" /\ ret.action = "interested"
  /\ OptedOutBefore("John")
  /\ Stored("John").state = "opted_out"
  /\ Has(Stored("John"), "proposedSlots")
  /\ Stored("John").proposedSlots # << >>

\* C12: a startForLead that returns completed leaves the stored lead in
\* awaiting_response with stateHistory ending consent_verified ->
\* contact_scheduled -> initial_contact_sent -> awaiting_response; a
\* startForLead that fails for another reason than the send was not given a
\* consent_verified lead with consentVerified true.
C12_StartReachesAwaitingResponse ==
  /\ (ret.op = "startForLead" /\ ret.status = "completed")
     => LET l == ret.lead
            n == Len(hist[l])
        IN /\ Stored(l).state = "awaiting_response"
           /\ n >= 4
           /\ hist[l][n - 2] =
                StateChange("consent_verified", "contact_scheduled", "schedule_contact", FALSE)
           /\ hist[l][n - 1] =
                StateChange("contact_scheduled", "initial_contact_sent", "send_initial_sms", FALSE)
           /\ hist[l][n] =
                StateChange("initial_contact_sent", "awaiting_response", "await_response", FALSE)
  /\ (ret.op = "startForLead" /\ ret.status = "failed" /\ ret.error # "Failed to send SMS")
     => ~(Stored(ret.lead).state = "consent_verified" /\ Stored(ret.lead).consentVerified)

C12_Witness ==
  /\ ret.op = "startForLead" /\ ret.status = "completed" /\ ret.lead = "Sarah"
  /\ Stored("Sarah").state = "awaiting_response"
  /\ Len(hist["Sarah"]) = 4

\* C13: after a startForLead that returned completed the stored lead's
\* contactAttempts holds exactly one outbound attempt, the initial message.
C13_InitialAttemptRecorded ==
  (ret.op = "startForLead" /\ ret.status = "completed")
  => LET a == Stored(ret.lead).contactAttempts
     IN /\ outboundCount(Stored(ret.lead)) = 1
        /\ \E i \in DOMAIN a : a[i] = Outbound("initialContact", "sent")

\* C14: startForLead on a lead whose consentVerified is false returns failed
\* with the error "Lead consent not verified", hands nothing to the provider
\* and leaves the stored lead (state, contactAttempts) and its stateHistory
\* as they were.
C14_NoConsentFailsFast ==
  [][\A l \in LeadIds :
        (ret'.op = "startForLead" /\ ret'.lead = l /\ ~heap[store[l]].consentVerified)
        => /\ ret'.status = "failed"
           /\ ret'.error = "Lead consent not verified"
           /\ sentNow' = NoMsg
           /\ heap'[store'[l]] = heap[store[l]]
           /\ hist'[l] = hist[l]]_vars

C14_Witness ==
  /\ ret.op = "startForLead" /\ ret.lead = "Michael" /\ ret.status = "failed"
  /\ ~Stored("Michael").consentVerified
  /\ Stored("Michael").state = "consent_verified"

ProposedOf(lead) == IF Has(lead, "proposedSlots") THEN lead.proposedSlots ELSE << >>

\* C16: a message classified interested for a lead in awaiting_response, with
\* at least one slot available, appends response_received and interested when
\* the classifier answers, then sends the proposal, and returns with the lead
\* in appointment_proposed and the earliest available slots (at most 3) stored
\* as proposedSlots.
C16_InterestedProposesEarliestSlots ==
  [][LET h == handlers[1]
         l == h.lead
         found == getAvailableSlots(slots, ProposeCount)
     IN /\ (h.pc = "classify" /\ handlers'[1].intent = "interested"
            /\ heap[h.obj].state = "awaiting_response")
           => /\ hist'[l] = hist[l]
                   \o << StateChange("awaiting_response", "response_received",
                                     "receive_response", FALSE),
                         StateChange("response_received", "interested",
                                     "classify_interested", FALSE) >>
              /\ heap'[store'[l]].state = "interested"
              /\ handlers'[1].pc = "prop_list"
        /\ (h.pc = "prop_list" /\ h.via = "interested" /\ heap[h.obj].state = "interested"
            /\ found # << >> /\ handlers'[1].pc # "prop_list")
           => /\ sentNow' = Msg(l, "appointmentProposal")
              /\ ProposedOf(heap'[store'[l]]) = found
        /\ (h.pc = "prop_send" /\ h.via = "interested" /\ heap[h.obj].state = "interested"
            /\ handlers'[1].pc # "prop_send")
           => /\ ret'.action = "interested" /\ ret'.success
              /\ heap'[store'[l]].state = "appointment_proposed"
              /\ hist'[l] = Append(hist[l],
                     StateChange("interested", "appointment_proposed",
                                 "propose_appointment", FALSE))
              /\ ProposedOf(heap'[store'[l]]) = found]_vars

\* C17: a numeric selection k within the proposed list, for a lead in
\* appointment_proposed whose k-th proposed slot is available, books that slot
\* for the lead: the slot becomes unavailable and bound to the lead, the lead
\* is in appointment_confirmed and its stored appointmentSlot is that slot.
C17_SelectionBooksKthSlot ==
  [][LET h == handlers[1]
         l == h.lead
         proposed == ProposedOf(heap[store[l]])
     IN (/\ h.pc = "book"
         /\ heap[store[l]].state = "appointment_proposed"
         /\ h.pref \in 1..Len(proposed)
         /\ slots[proposed[h.pref]].available)
        => /\ slots'[proposed[h.pref]] = [available |-> FALSE, leadId |-> l]
           /\ heap'[store'[l]].state = "appointment_confirmed"
           /\ Has(heap'[store'[l]], "appointmentSlot")
           /\ heap'[store'[l]].appointmentSlot = proposed[h.pref]]_vars

\* C18: when processIncomingMessage returns from a confirm message that
\* booked a slot for the lead, the stored lead has no proposedSlots, or an
\* empty list.
C18_ProposedSlotsClearedAfterBooking ==
  [][(/\ handlers[1].pc = "reply_send"
      /\ handlers[1].book = "ok"
      /\ ret'.op = "processIncomingMessage")
     => ProposedOf(heap'[store'[handlers[1].lead]]) = << >>]_vars

\* C19: whenever proposeAppointmentSlots gets zero slots from the scheduler,
\* whatever path called it, the lead ends in state escalated and no proposal
\* is handed to the provider.
C19_ZeroSlotsEscalates ==
  [][(/\ handlers[1].pc = "prop_list"
      /\ getAvailableSlots(slots, ProposeCount) = << >>)
     => /\ heap'[store'[handlers[1].lead]].state = "escalated"
        /\ sentNow' = NoMsg]_vars

\* the handler in slot 1 is re-proposing after a booking that failed because
\* the selected slot was taken, for a lead in appointment_proposed that has
\* no appointmentSlot
RebookCase ==
  LET h == handlers[1]
      lead == heap[store[h.lead]]
  IN /\ h.via = "confirm_bookfail"
     /\ h.book = "Slot already booked"
     /\ lead.state = "appointment_proposed"
     /\ ~Has(lead, "appointmentSlot")

\* the stored lead of the call in slot 1 is, after the step, in
\* appointment_proposed with no appointmentSlot
StaysProposed ==
  LET lead == heap'[store'[handlers[1].lead]]
  IN lead.state = "appointment_proposed" /\ ~Has(lead, "appointmentSlot")

\* the first step of the case: the provider answers the booking of a slot
\* that is no longer available
BookingLost ==
  LET h == handlers[1]
      lead == heap[store[h.lead]]
  IN /\ h.pc = "book"
     /\ ~slots[h.slot].available
     /\ lead.state = "appointment_proposed"
     /\ ~Has(lead, "appointmentSlot")

\* C20 (as stated): a booking that fails because the selected slot is no
\* longer available does not end the call: a new proposal is sent, the call
\* returns success, and the lead stays in appointment_proposed with no
\* appointmentSlot.
C20_FailedBookingAlwaysReproposes ==
  [][/\ BookingLost
        => handlers'[1].pc = "prop_list" /\ ret' = NoRet /\ StaysProposed
     /\ (handlers[1].pc = "prop_list" /\ RebookCase)
        => /\ sentNow' = Msg(handlers[1].lead, "appointmentProposal")
           /\ handlers'[1].pc = "prop_send"
           /\ StaysProposed
     /\ (handlers[1].pc = "prop_send" /\ RebookCase)
        => /\ ret'.op = "processIncomingMessage" /\ ret'.success
           /\ StaysProposed]_vars

\* C20 (amended): such a booking failure never ends the call with a failure
\* and never sets an appointmentSlot.  When the scheduler still has an
\* available slot a new proposal is sent, the call returns success and the
\* lead stays in appointment_proposed; when it has none, nothing is sent and
\* the call returns success.
C20_FailedBookingReproposesIfSlots ==
  [][/\ BookingLost
        => handlers'[1].pc = "prop_list" /\ ret' = NoRet /\ StaysProposed
     /\ (handlers[1].pc = "prop_list" /\ RebookCase)
        => IF getAvailableSlots(slots, ProposeCount) # << >>
           THEN /\ sentNow' = Msg(handlers[1].lead, "appointmentProposal")
                /\ handlers'[1].pc = "prop_send"
                /\ StaysProposed
           ELSE /\ sentNow' = NoMsg
                /\ ret'.op = "processIncomingMessage" /\ ret'.success
                /\ ret'.action = "appointment_confirmed"
                /\ ~Has(heap'[store'[handlers[1].lead]], "appointmentSlot")
     /\ (handlers[1].pc = "prop_send" /\ RebookCase)
        => /\ ret'.op = "processIncomingMessage" /\ ret'.success
           /\ ret'.action = "appointment_confirmed"
           /\ StaysProposed]_vars

C20_Witness ==
  /\ handlers[1].pc = "prop_send"
  /\ RebookCase
  /\ sentNow = Msg(handlers[1].lead, "appointmentProposal")
  /\ \E s \in 1..Len(slots) : ~slots[s].available /\ slots[s].leadId # handlers[1].lead

\* the lead has an appointment slot (the property is present and defined)
HasAppointment(lead) == Has(lead, "appointmentSlot") /\ lead.appointmentSlot # 0

\* C21: a message classified reschedule for a lead in appointment_proposed or
\* appointment_confirmed cancels the lead's slot if it has one (the slot is
\* available again, the stored appointmentSlot is cleared) and moves the lead
\* to interested; when slots are available the proposal is sent and the call
\* returns with the lead in appointment_proposed and no appointmentSlot.
C21_RescheduleCancelsAndReproposes ==
  [][LET h == handlers[1]
         l == h.lead
         before == heap[store[l]]
         after == heap'[store'[l]]
         inCase == /\ h.via = "reschedule"
                   /\ heap[h.obj].state \in { "interested", "appointment_confirmed" }
     IN /\ (/\ h.pc = "classify" /\ handlers'[1].intent = "reschedule"
            /\ before.state \in { "appointment_proposed", "appointment_confirmed" })
           => IF HasAppointment(before)
              THEN handlers'[1].pc = "cancel"
              ELSE handlers'[1].pc = "prop_list" /\ after.state = "interested"
        /\ (/\ h.pc = "cancel"
            /\ before.state \in { "appointment_proposed", "appointment_confirmed" })
           => /\ slots'[h.slot] = [available |-> TRUE, leadId |-> "none"]
              /\ ~HasAppointment(after)
              /\ after.state = "interested"
              /\ handlers'[1].pc = "prop_list"
        /\ (h.pc = "prop_list" /\ inCase /\ getAvailableSlots(slots, ProposeCount) # << >>)
           => /\ sentNow' = Msg(l, "appointmentProposal")
              /\ ~HasAppointment(after)
        /\ (h.pc = "prop_send" /\ inCase)
           => /\ ret'.op = "processIncomingMessage" /\ ret'.success
              /\ after.state = "appointment_proposed"
              /\ ~HasAppointment(after)]_vars

\* a runScheduledContacts call starts in this step
TickStarts ==
  /\ handlers[1].pc = "idle"
  /\ \/ handlers'[1].op = "runScheduledContacts"
     \/ ret'.op = "runScheduledContacts"

\* after the step, the tick has handed a follow-up for lead l to the
\* provider, or still has l among the leads it will contact
TickTakes(l) ==
  \/ handlers'[1].lead = l /\ sentNow' = Msg(l, "followUp")
  \/ \E k \in DOMAIN handlers'[1].ready : heap'[handlers'[1].ready[k]].id = l

\* the lead's nextContactAt is absent or not in the future
IsDue(lead) == ~(Has(lead, "nextContactAt") /\ lead.nextContactAt > now)

\* C22: a tick that starts while a lead is in awaiting_response with
\* contactAttempts.length equal to maxContactAttempts (and due for contact)
\* moves that lead to failed, with max_attempts_reached as the last entry of
\* its history.
C22_CappedLeadFailsAtNextTick ==
  [][\A l \in LeadIds :
       (/\ TickStarts
        /\ heap[store[l]].state = "awaiting_response"
        /\ Len(heap[store[l]].contactAttempts) = heap[store[l]].maxContactAttempts
        /\ IsDue(heap[store[l]]))
       => \/ /\ heap'[store'[l]].state = "failed"
             /\ hist'[l][Len(hist'[l])].trigger = "max_attempts_reached"
          \/ TickTakes(l)]_vars

\* the stored leads that the specification of getReadyForContact selects
ReadySpec ==
  { l \in LeadIds :
      /\ heap[store[l]].state \in { "consent_verified", "contact_scheduled",
                                    "awaiting_response" }
      /\ Len(heap[store[l]].contactAttempts) < heap[store[l]].maxContactAttempts
      /\ IsDue(heap[store[l]]) }

\* C23: getReadyForContact returns exactly the stored leads in a contactable
\* state, with contactAttempts.length below maxContactAttempts and
\* nextContactAt absent or not in the future, each once; a lead with
\* contactAttempts.length = maxContactAttempts is never returned.  Checked
\* on the result computed in every reachable state, which is the list a tick
\* starting in that state works from.
C23_ReadyForContactExact ==
  LET r == getReadyForContact(World, now)
  IN /\ { heap[r[k]].id : k \in DOMAIN r } = ReadySpec
     /\ \A k \in DOMAIN r : r[k] = store[heap[r[k]].id]
     /\ \A j, k \in DOMAIN r : j # k => r[j] # r[k]
     /\ \A l \in LeadIds :
          Len(heap[store[l]].contactAttempts) = heap[store[l]].maxContactAttempts
          => \A k \in DOMAIN r : r[k] # store[l]

\* a tick is contacting Sarah while John, in a contactable state and due,
\* is at the cap and was left out
C23_Witness ==
  /\ handlers[1].op = "runScheduledContacts"
  /\ handlers[1].pc = "fu_send"
  /\ handlers[1].lead = "Sarah"
  /\ heap[store["John"]].state \in ContactableStates
  /\ IsDue(heap[store["John"]])
  /\ Len(heap[store["John"]].contactAttempts) = heap[store["John"]].maxContactAttempts
  /\ handlers[1].ready = << >>
  /\ "Sarah" \in ReadySpec

\* C24: only outbound attempts count against maxContactAttempts: a tick that
\* starts while a lead is in a contactable state, due for contact, with
\* fewer than maxContactAttempts outbound attempts, selects that lead and
\* sends it a follow-up.
C24_InboundAttemptsDoNotCount ==
  [][\A l \in LeadIds :
       (/\ TickStarts
        /\ heap[store[l]].state \in ContactableStates
        /\ IsDue(heap[store[l]])
        /\ outboundCount(heap[store[l]]) < heap[store[l]].maxContactAttempts)
       => TickTakes(l)]_vars

\* the handlers that are running runScheduledContacts
TicksInProgress ==
  { i \in HandlerIds : handlers[i].pc # "idle" /\ handlers[i].op = "runScheduledContacts" }

\* C25: no tick begins while a previous tick is still in progress: at most
\* one runScheduledContacts call is in flight, and no lead is being sent a
\* follow-up by two ticks at once.
C25_TicksDoNotOverlap ==
  /\ Cardinality(TicksInProgress) <= 1
  /\ \A i, j \in TicksInProgress :
        (i # j /\ handlers[i].pc = "fu_send" /\ handlers[j].pc = "fu_send")
        => handlers[i].lead # handlers[j].lead

\* position in a stateHistory of the last entry made by a trigger (0: none)
LastEntryOf(hs, trigger) ==
  LET at == { i \in DOMAIN hs : hs[i].trigger = trigger }
  IN IF at = {} THEN 0 ELSE CHOOSE i \in at : \A j \in at : j <= i

\* C26: the lead_state_update events a call delivers come in the order of
\* the transitions they report: of two such events delivered one after the
\* other for the same lead, the first reports the earlier entry of the
\* lead's stateHistory.  In particular the event for classify_interested
\* comes before the event for propose_appointment.
C26_StateUpdatesInTransitionOrder ==
  \A j, k \in DOMAIN events :
    (/\ j < k
     /\ events[j].type = "lead_state_update"
     /\ events[k].type = "lead_state_update"
     /\ events[j].lead = events[k].lead
     /\ LastEntryOf(hist[events[j].lead], events[j].trigger) > 0
     /\ LastEntryOf(hist[events[k].lead], events[k].trigger) > 0)
    => LastEntryOf(hist[events[j].lead], events[j].trigger)
         < LastEntryOf(hist[events[k].lead], events[k].trigger)

C28_FollowUpFailureReported ==
  [][FollowUpSendDone(1, FALSE)
     => LET l == handlers[1].lead
            before == heap[store[l]].contactAttempts
            after == heap'[store'[l]].contactAttempts
        IN /\ Len(after) = Len(before) + 1
           /\ after[Len(after)].direction = "outbound"
           /\ after[Len(after)].status = "failed"
           /\ IF ret'.op = "runScheduledContacts"
              THEN ret'.errors >= 1 /\ ret'.processed = handlers[1].processed
              ELSE handlers'[1].processed = handlers[1].processed]_vars

\* C29: processIncomingMessage from a phone number that belongs to no stored
\* lead returns success false with action lead_not_found at once, and
\* changes nothing: no lead, no stateHistory, no contact attempt, no slot,
\* no message sent, no event.
C29_UnknownPhoneIsNoOp ==
  [][ProcessIncomingMessage(1, "unknown")
     => /\ ret'.op = "processIncomingMessage"
        /\ ret'.action = "lead_not_found"
        /\ ~ret'.success
        /\ handlers' = handlers
        /\ \A l \in LeadIds : heap'[store'[l]] = heap[store[l]]
        /\ hist' = hist
        /\ slots' = slots
        /\ sentNow' = NoMsg
        /\ events' = << >>]_vars

\* the call has returned lead_not_found in a store whose leads have been
\* worked on
C29_Witness ==
  /\ ret.op = "processIncomingMessage"
  /\ ret.action = "lead_not_found"
  /\ ~ret.success
  /\ Stored("John").state = "awaiting_response"
  /\ Len(Stored("John").contactAttempts) > 0

LanguageOps == { "classifyResponse", "draftMessage", "generateResponse" }

\* a call of the language service leaves the store, the histories, the
\* calendar and the calls in flight as they were, sends nothing and emits
\* nothing
LanguageStepLeavesStore ==
  ret'.op \in LanguageOps =>
    /\ \A l \in LeadIds : heap'[store'[l]] = heap[store[l]]
    /\ hist' = hist
    /\ slots' = slots
    /\ handlers' = handlers
    /\ sentNow' = NoMsg
    /\ events' = << >>

\* the step appends to the lead's stateHistory and the stored state is the
\* toState of the newest entry
ThroughStateMachine(l) ==
  /\ Len(hist'[l]) > Len(hist[l])
  /\ hist'[l][Len(hist'[l])].toState = heap'[store'[l]].state

\* every change of a stored lead's state is a transition of the state
\* machine made by an orchestrator step
StateChangesThroughStateMachine ==
  \A l \in LeadIds :
    heap'[store'[l]].state # heap[store[l]].state =>
      /\ ret'.op \notin LanguageOps
      /\ ThroughStateMachine(l)

\* C30: classifyResponse, draftMessage and generateResponse leave every
\* stored lead (state, stateHistory, contactAttempts, appointment fields) and
\* the calendar unchanged, and every change of a stored lead's state is made
\* by an orchestrator step through the state machine: that step is not a
\* language-service call, it extends the lead's stateHistory, and the new
\* state is the toState of the newest entry.
C30_ClassifierNeverChangesLeadState ==
  [][LanguageStepLeavesStore /\ StateChangesThroughStateMachine]_vars

\* the explicit stop/unsubscribe phrases of the stop rule
StopPhrases ==
  { << "s", "t", "o", "p" >>,
    << "u", "n", "s", "u", "b", "s", "c", "r", "i", "b", "e" >>,
    << "c", "a", "n", "c", "e", "l" >>,
    << "s", "t", "o", "p", " ", "t", "e", "x", "t", "i", "n", "g" >>,
    << "r", "e", "m", "o", "v", "e", " ", "m", "e" >>,
    << "o", "p", "t", " ", "o", "u", "t" >> }

ContainsStopPhrase(message) ==
  \E phrase \in StopPhrases : includes(toLowerCase(message), phrase)

\* C31: the classifier returns intent stop, with confidence 0.99, the
\* highest of its rules, for every message that contains a stop phrase as a
\* substring in any letter case.
C31_StopPhraseAlwaysStop ==
  (ret.op = "classifyResponse" /\ ContainsStopPhrase(ret.message)) =>
    (ret.action = "stop" /\ ret.processed = 99)

\* the reschedule phrases of the reschedule rule
ReschedulePhrases ==
  { << "r", "e", "s", "c", "h", "e", "d", "u", "l", "e" >>,
    << "d", "i", "f", "f", "e", "r", "e", "n", "t", " ", "t", "i", "m", "e" >>,
    << "c", "h", "a", "n", "g", "e" >>,
    << "c", "a", "n", "'", "t", " ", "m", "a", "k", "e", " ", "i", "t" >> }

ContainsReschedulePhrase(message) ==
  \E phrase \in ReschedulePhrases : includes(toLowerCase(message), phrase)

\* C32: the classifier returns intent reschedule for every message that
\* contains a reschedule phrase and no stop phrase.
C32_ReschedulePhraseReschedules ==
  (/\ ret.op = "classifyResponse"
   /\ ContainsReschedulePhrase(ret.message)
   /\ ~ContainsStopPhrase(ret.message)) =>
    ret.action = "reschedule"

\* C33: getByPhone(L.phone) returns L for every stored lead L, and getByPhone
\* never returns a lead whose phone differs from the queried number.
C33_PhoneIndexConsistent ==
  /\ \A id \in DOMAIN db.leads : getByPhone(db, db.leads[id].phone) = db.leads[id]
  /\ \A phone \in Phones :
       getByPhone(db, phone) # NoLead => getByPhone(db, phone).phone = phone

\* the stateHistory of l after the step has the one before it as a prefix
HistoryExtended(l) ==
  /\ Len(hist'[l]) >= Len(hist[l])
  /\ SubSeq(hist'[l], 1, Len(hist[l])) = hist[l]

\* C34: stateHistory is append-only: every step of the state machine, the
\* store and the orchestrator, in any interleaving, leaves each lead's
\* earlier stateHistory as a prefix of the later one.
C34_StateHistoryAppendOnly ==
  [][\A l \in LeadIds : HistoryExtended(l)]_vars

\* Michael's history has grown by a forced transition and then by the
\* orchestrator's opt-out transition
C34_Witness ==
  /\ Len(hist["Michael"]) >= 3
  /\ hist["Michael"][2].forced
  /\ hist["Michael"][Len(hist["Michael"])].trigger = "opt_out_received"

\* the stored contactAttempts of l after the step has the one before it as
\* a prefix
AttemptsKept(l) ==
  LET before == heap[store[l]].contactAttempts
      after == heap'[store'[l]].contactAttempts
  IN /\ Len(after) >= Len(before)
     /\ SubSeq(after, 1, Len(before)) = before

\* C35: an attempt once recorded on a stored lead stays in that lead's
\* contactAttempts after every later orchestrator step, and the step that
\* classifies an inbound message of a known lead leaves the inbound attempt
\* recorded on the stored lead.
C35_ContactAttemptsImmutable ==
  [][/\ \A l \in LeadIds : AttemptsKept(l)
     /\ \A i \in HandlerIds :
          (handlers[i].pc = "classify" /\ handlers'[i].pc # "classify") =>
            \E k \in DOMAIN heap'[store'[handlers[i].lead]].contactAttempts :
              heap'[store'[handlers[i].lead]].contactAttempts[k].direction = "inbound"]_vars

\* the time of day is inside the configured quiet-hours window
InQuietHours ==
  \E hour \in FormattedHours(minuteOfDay) :
    isQuietHours(hour, minuteOfDay % 60, QuietHoursStart, QuietHoursEnd)

\* C36: no initial contact, follow-up or reply is handed to the provider at
\* a time of day inside the quiet-hours window.
C36_NoSendInQuietHours ==
  sentNow # NoMsg => ~InQuietHours

\* the stateHistory hs holds a StateChange with the event's fromState and
\* toState
RecordedIn(hs, e) ==
  \E k \in DOMAIN hs :
    /\ hs[k].fromState = e.fromState
    /\ hs[k].toState = e.toState

\* C37: every lead_state_update event emitted corresponds to a StateChange
\* of that lead's stateHistory with the same fromState and toState (so none is emitted for a rejected transition, and fromState is the state
\* before the transition).
C37_StateUpdateEventsMatchHistory ==
  \A k \in DOMAIN events :
    events[k].type = "lead_state_update" => RecordedIn(hist[events[k].lead], events[k])

\* the step hands a proposal to the provider: the list in the message is the
\* list of earliest available slots, and it is the stored proposedSlots
ProposalHandedOver ==
  LET l == handlers[1].lead
  IN (SlotsListed(1) /\ sentNow'.kind = "appointmentProposal") =>
       ProposedOf(heap'[store'[l]]) = getAvailableSlots(slots, ProposeCount)

\* the step after the provider has answered leaves the stored proposedSlots
\* as the list that was sent
ProposalKept ==
  LET l == handlers[1].lead
  IN ProposalSendDone(1) => ProposedOf(heap'[store'[l]]) = ProposedOf(heap[store[l]])

\* C38: after every proposal the orchestrator sends, first proposals and
\* re-proposals alike, the stored proposedSlots is the list of slots of that
\* proposal message.
C38_StoredProposalIsLastSent ==
  [][ProposalHandedOver /\ ProposalKept]_vars

\* how many send_initial_sms transitions the stateHistory hs holds; the
\* transition is made in the step that hands the initial message to the
\* provider
RECURSIVE InitialSends(_)
InitialSends(hs) ==
  IF hs = << >> THEN 0
  ELSE (IF hs[Len(hs)].trigger = "send_initial_sms" THEN 1 ELSE 0)
       + InitialSends(SubSeq(hs, 1, Len(hs) - 1))

\* a step that hands an initial message for l to the provider is the first
\* one for l; a startForLead step on a lead whose initial message was handed
\* over already sends nothing and ends failed
OneInitialSend(l) ==
  /\ (sentNow'.kind = "initialContact" /\ sentNow'.lead = l) =>
       (InitialSends(hist[l]) = 0 /\ InitialSends(hist'[l]) = 1)
  /\ \A i \in HandlerIds :
       (StartForLead(i, l) /\ InitialSends(hist[l]) >= 1) =>
         (sentNow' = NoMsg /\ ret'.op = "startForLead" /\ ret'.status = "failed")

\* C39: for any number of sequential or overlapping startForLead calls on a
\* lead, the provider is asked to send the initial message at most once, and
\* every other call ends failed without sending.
C39_AtMostOneInitialContact ==
  [][\A l \in LeadIds : OneInitialSend(l)]_vars

\* the calendar slots that are unavailable and bound to the lead's id
BookedSlots(l) == { k \in DOMAIN slots : ~slots[k].available /\ slots[k].leadId = l }

\* C40: in every reachable state at most one calendar slot is unavailable
\* and bound to a given lead's id.
C40_AtMostOneBookedSlotPerLead ==
  \A l \in LeadIds : Cardinality(BookedSlots(l)) <= 1

====
